---- MODULE Spec2Model ----
(***************************************************************************)
(* Wishlist REST service: the two tables (wishlist, wishlist_item), their  *)
(* primary-key sequences, and the requests of service/routes.py handled    *)
(* one at a time.  A request is received, its handler runs as one action   *)
(* (lookup, validation, the model calls it makes, the commit, and the      *)
(* response it returns), and the response is sent.                         *)
(***************************************************************************)
EXTENDS Integers, Sequences, FiniteSets, TLC

VARIABLES
    wishlist_table,   \* id -> row of table "wishlist"
    item_table,       \* id -> row of table "wishlist_item"
    wishlist_id_seq,  \* last value handed out by wishlist.id's sequence
    item_id_seq,      \* last value handed out by wishlist_item.id's sequence
    request,          \* the request being handled, op "none" when there is none
    resp,             \* its response, op "none" until the handler has run
    session,          \* db.session: the loaded objects with uncommitted attributes
    before            \* history: the tables as they were when it arrived

vars == <<wishlist_table, item_table, wishlist_id_seq, item_id_seq, request, resp,
          session, before>>

store == <<wishlist_table, item_table>>

\* a session without changes to commit: per table, no object
NoSession == [wishlists |-> <<>>, items |-> <<>>]

\* the tables before any row is written
NoStore == <<<<>>, <<>>>>

----------------------------------------------------------------------------
(* Bounds of the model *)

\* the wishlist sequence hands out at most this many ids
MaxWishlistId == 2
\* the item sequence hands out at most this many ids
MaxItemId == 2

----------------------------------------------------------------------------
(* HTTP status codes used by the handlers *)

HTTP_200_OK == 200
HTTP_201_CREATED == 201
HTTP_204_NO_CONTENT == 204
HTTP_400_BAD_REQUEST == 400
HTTP_404_NOT_FOUND == 404
HTTP_500_INTERNAL_SERVER_ERROR == 500

----------------------------------------------------------------------------
(* Optional values: Python None / an absent key or query parameter is the  *)
(* empty tuple, a present value v is the one-element tuple <<v>>.          *)

None == <<>>
Some(v) == <<v>>
Val(o) == o[1]

\* Python truthiness of an optional string: None and "" are falsy
Truthy(o) == o # None /\ Val(o) # ""

----------------------------------------------------------------------------
(* Identifiers and field values the requests draw from *)

\* ids a URL can carry: the ids the sequences can hand out (an id names no
\* row before it is handed out and after its row is deleted)
WishlistIds == 1..MaxWishlistId
ItemIds == 1..MaxItemId

WishlistNames == {"a"}
CustomerIds == {"c1"}

\* prices are counted in thousandths; a stored price is counted in cents

\* raw text of a min_price / max_price query parameter
RawPrices == {"abc", "0", "1.0", "2.0"}

----------------------------------------------------------------------------
(* Conversions *)

\* Numeric(precision=10, scale=2): the column keeps two decimals
ToNumeric(mills) == (mills + 5) \div 10

\* request.args.get(key, type=float): the parsed value, None when the text
\* is absent or float() raises ValueError
ParseFloat(raw) ==
    IF raw = None THEN None
    ELSE CASE Val(raw) = "0" -> Some(0)
           [] Val(raw) = "1.0" -> Some(1000)
           [] Val(raw) = "2.0" -> Some(2000)
           [] OTHER -> None

\* a string as the sequence of its characters, for the strings that are
\* wishlist names or are searched in them
Chars(str) ==
    CASE str = "" -> <<>>
      [] str = "a" -> <<"a">>
      [] str = "A" -> <<"A">>
      [] str = "_" -> <<"_">>
      [] str = "Copy of a" -> <<"C", "o", "p", "y", " ", "o", "f", " ", "a">>

\* str.lower() and the case folding of ILIKE, per character
Lower(c) ==
    CASE c = "A" -> "a"
      [] c = "C" -> "c"
      [] OTHER -> c

\* text LIKE pattern without regard to case, both as character sequences:
\* "%" stands for any sequence of characters, "_" for any one character
RECURSIVE ILike(_, _)
ILike(text, pattern) ==
    IF pattern = <<>> THEN text = <<>>
    ELSE IF Head(pattern) = "%"
    THEN \E k \in 0..Len(text) :
            ILike(SubSeq(text, k + 1, Len(text)), Tail(pattern))
    ELSE /\ text # <<>>
         /\ Head(pattern) = "_" \/ Lower(Head(pattern)) = Lower(Head(text))
         /\ ILike(Tail(text), Tail(pattern))

----------------------------------------------------------------------------
(* Model layer: service/wishlist.py *)

\* Wishlist.find
Wishlist_find(by_id) ==
    IF by_id \in DOMAIN wishlist_table THEN Some(by_id) ELSE None

\* WishlistItem.find
WishlistItem_find(by_id) ==
    IF by_id \in DOMAIN item_table THEN Some(by_id) ELSE None

\* Wishlist.wishlist_items: the rows whose foreign key is the wishlist
wishlist_items(wishlist_id) ==
    {i \in DOMAIN item_table : item_table[i].wishlist_id = wishlist_id}

\* WishlistItem.serialize leaving the category out
WishlistItem_serialize_no_category(i) == [[id |-> i] @@ item_table[i] EXCEPT !.category = None]

\* WishlistItem.serialize (timestamps left out)
WishlistItem_serialize(i) ==
    [id |-> i,
     wishlist_id |-> item_table[i].wishlist_id,
     product_id |-> item_table[i].product_id,
     product_name |-> item_table[i].product_name,
     product_description |-> item_table[i].product_description,
     quantity |-> item_table[i].quantity,
     product_price |-> item_table[i].product_price,
     category |-> item_table[i].category]

\* find_with_filters without its category clause
find_with_filters_no_category(wishlist_id, product_name, category, min_price, max_price) ==
    {i \in DOMAIN item_table :
        /\ item_table[i].wishlist_id = wishlist_id
        /\ (Truthy(product_name) => item_table[i].product_name = Val(product_name))
        /\ (min_price # None => item_table[i].product_price * 10 >= Val(min_price))
        /\ (max_price # None => item_table[i].product_price * 10 <= Val(max_price))}

\* find_with_filters testing the prices as it tests the strings, "if
\* min_price:", so that a bound of 0 is not applied
find_with_filters_truthy_prices(wishlist_id, product_name, category, min_price, max_price) ==
    {i \in DOMAIN item_table :
        /\ item_table[i].wishlist_id = wishlist_id
        /\ (Truthy(product_name) => item_table[i].product_name = Val(product_name))
        /\ (Truthy(category) => item_table[i].category = category)
        /\ (min_price # None /\ min_price # Some(0)
                => item_table[i].product_price * 10 >= Val(min_price))
        /\ (max_price # None /\ max_price # Some(0)
                => item_table[i].product_price * 10 <= Val(max_price))}

\* find_with_filters with strict comparisons of the price
find_with_filters_exclusive(wishlist_id, product_name, category, min_price, max_price) ==
    {i \in DOMAIN item_table :
        /\ item_table[i].wishlist_id = wishlist_id
        /\ (Truthy(product_name) => item_table[i].product_name = Val(product_name))
        /\ (Truthy(category) => item_table[i].category = category)
        /\ (min_price # None => item_table[i].product_price * 10 > Val(min_price))
        /\ (max_price # None => item_table[i].product_price * 10 < Val(max_price))}

\* WishlistItem.find_with_filters: the ids of the rows the query returns.
\* min_price and max_price are in thousandths, the stored price in cents.
find_with_filters(wishlist_id, product_name, category, min_price, max_price) ==
    {i \in DOMAIN item_table :
        /\ item_table[i].wishlist_id = wishlist_id
        /\ (Truthy(product_name) => item_table[i].product_name = Val(product_name))
        /\ (Truthy(category) => item_table[i].category = category)
        /\ (min_price # None => item_table[i].product_price * 10 >= Val(min_price))
        /\ (max_price # None => item_table[i].product_price * 10 <= Val(max_price))}

----------------------------------------------------------------------------
(* Responses: the operation, the status code, the id the body reports for *)
(* a created row (0 when none), and the serialized items of the body.      *)

NoItems == {}

\* a response: its status, the id and the item array of its body where it
\* has them, and in value the one other field of the body that an action
\* reports (items_remaining, is_public), a JSON value defined below
Response(op, status, id, items) ==
    [op |-> op, status |-> status, id |-> id, items |-> items,
     value |-> [t |-> "absent", n |-> 0, s |-> ""]]

Reporting(response, value) == [response EXCEPT !.value = value]

----------------------------------------------------------------------------
(* JSON values of a request body.  A field of a body is absent, a number,  *)
(* a string or a boolean; every value has the same shape so that values of *)
(* different JSON types can be compared.                                   *)

JAbsent == [t |-> "absent", n |-> 0, s |-> ""]
JNum(n) == [t |-> "number", n |-> n, s |-> ""]
JStr(s) == [t |-> "string", n |-> 0, s |-> s]
JBool(b) == [t |-> "boolean", n |-> IF b THEN 1 ELSE 0, s |-> ""]

\* a field that is there with the value None (null)
JNull == [t |-> "null", n |-> 0, s |-> ""]

\* the dictionary serialize returns, as the data deserialize reads: ints
\* and strings as they are, None as null, the Decimal price (hundredths in
\* the column) as a number (thousandths in a body)
AsData(dict) ==
    [id |-> JNum(dict.id),
     wishlist_id |-> JNum(dict.wishlist_id),
     product_id |-> JNum(dict.product_id),
     product_name |-> JStr(dict.product_name),
     product_description |-> JStr(dict.product_description),
     quantity |-> JNum(dict.quantity),
     product_price |-> JNum(dict.product_price * 10),
     category |-> IF dict.category = None THEN JNull
                  ELSE JStr(Val(dict.category))]

\* data.get(key, None) for a string column
GetStr(j) == IF j.t = "string" THEN Some(j.s) ELSE None

----------------------------------------------------------------------------
(* Objects and rows.  An object is a row together with its id attribute    *)
(* (None while it has no primary key); the table keeps the row under the   *)
(* id.                                                                     *)

ItemColumns == {"wishlist_id", "product_id", "product_name",
                "product_description", "product_price", "category",
                "quantity"}
WishlistColumns == {"name", "customer_id", "description", "is_public"}

ItemRow(obj) == [c \in ItemColumns |-> obj[c]]
WishlistRow(obj) == [c \in WishlistColumns |-> obj[c]]

\* the persistent object loaded for a row
ItemObject(i) == [c \in ItemColumns \cup {"id"} |->
                    IF c = "id" THEN Some(i) ELSE item_table[i][c]]
WishlistObject(w) == [c \in WishlistColumns \cup {"id"} |->
                        IF c = "id" THEN Some(w) ELSE wishlist_table[w][c]]

\* a table without the rows of the given ids
Without(tbl, ids) == [k \in (DOMAIN tbl) \ ids |-> tbl[k]]

----------------------------------------------------------------------------
(* WishlistItem.deserialize *)

\* the checks of deserialize: every data[...] key is there (KeyError),
\* float(product_price) succeeds (ValueError), product_name and
\* product_description are strings, quantity is an int
WishlistItem_deserialize_ok(data) ==
    /\ data.wishlist_id.t # "absent"
    /\ data.product_id.t # "absent"
    /\ data.product_name.t # "absent"
    /\ data.product_description.t # "absent"
    /\ data.product_price.t = "number"
    /\ data.product_name.t = "string"
    /\ data.product_description.t = "string"
    /\ data.quantity.t \in {"absent", "number"}

\* the attributes deserialize assigns; product_price is given as the
\* Numeric(10, 2) column stores it
WishlistItem_deserialize(data) ==
    [id |-> IF data.id.t = "number" THEN Some(data.id.n) ELSE None,
     wishlist_id |-> data.wishlist_id.n,
     product_id |-> data.product_id.n,
     product_name |-> data.product_name.s,
     product_description |-> data.product_description.s,
     quantity |-> IF data.quantity.t = "absent" THEN 1 ELSE data.quantity.n,
     product_price |-> ToNumeric(data.product_price.n),
     category |-> GetStr(data.category)]

----------------------------------------------------------------------------
(* Wishlist.deserialize *)

\* Wishlist.deserialize without the isinstance(data["is_public"], bool) test
Wishlist_deserialize_ok_any_is_public(data) ==
    /\ data.name.t # "absent"
    /\ data.customer_id.t # "absent"
    /\ data.wishlist_items.is_list
    /\ \A k \in 1..Len(data.wishlist_items.list) :
          WishlistItem_deserialize_ok(data.wishlist_items.list[k])

\* the checks of deserialize: name and customer_id are there, is_public is
\* absent or a bool, wishlist_items is a list, every element deserializes
Wishlist_deserialize_ok(data) ==
    /\ data.name.t # "absent"
    /\ data.customer_id.t # "absent"
    /\ data.is_public.t \in {"absent", "boolean"}
    /\ data.wishlist_items.is_list
    /\ \A k \in 1..Len(data.wishlist_items.list) :
          WishlistItem_deserialize_ok(data.wishlist_items.list[k])

\* the attributes deserialize assigns to self; self.id is not touched
Wishlist_deserialize(self, data) ==
    [id |-> self.id,
     name |-> data.name.s,
     customer_id |-> data.customer_id.s,
     description |-> GetStr(data.description),
     is_public |-> IF data.is_public.t = "boolean"
                   THEN data.is_public.n = 1 ELSE FALSE]

\* self.wishlist_items after deserialize: one new WishlistItem per element
Wishlist_deserialize_items(data) ==
    [k \in 1..Len(data.wishlist_items.list) |->
        WishlistItem_deserialize(data.wishlist_items.list[k])]

----------------------------------------------------------------------------
(* deserialize that raises: the attributes assigned before the error *)

\* the first n elements of a sequence of keys, as a set
FirstKeys(keys, n) == {keys[k] : k \in 1..n}

\* WishlistItem.deserialize assigns in this order; data[key] raises
\* KeyError for the keys read with a subscript, float() raises ValueError,
\* the isinstance tests come after the last assignment
ItemKeys == <<"id", "wishlist_id", "product_id", "product_name",
              "product_description", "quantity", "product_price", "category">>
ItemKeysSubscripted == {"wishlist_id", "product_id", "product_name",
                        "product_description", "product_price"}

\* the attributes WishlistItem.deserialize(data) has assigned when it
\* raises, with the values of data
WishlistItem_deserialize_assigned(data) ==
    LET Raises(k) == \/ ItemKeys[k] \in ItemKeysSubscripted /\ data[ItemKeys[k]].t = "absent"
                     \/ ItemKeys[k] = "product_price" /\ data.product_price.t # "number"
        failing == {k \in 1..Len(ItemKeys) : Raises(k)}
        n == IF failing = {} THEN Len(ItemKeys)
             ELSE (CHOOSE k \in failing : \A j \in failing : k <= j) - 1
    IN [c \in FirstKeys(ItemKeys, n) |-> data[c]]

\* Wishlist.deserialize assigns in this order; the item collection is
\* reassigned before the items are deserialized
WishlistKeys == <<"name", "customer_id", "description", "is_public", "wishlist_items">>

\* the attributes Wishlist.deserialize(data) has assigned when it raises
Wishlist_deserialize_assigned(data) ==
    LET n == IF data.name.t = "absent" THEN 0
             ELSE IF data.customer_id.t = "absent" THEN 1
             ELSE IF data.is_public.t \notin {"absent", "boolean"} THEN 3
             ELSE IF ~data.wishlist_items.is_list THEN 4
             ELSE 5
    IN [c \in FirstKeys(WishlistKeys, n) |-> data[c]]

\* the session after deserialize raised on the loaded object of the given
\* table and id
SessionAfterRaise(table, id, assigned) ==
    IF DOMAIN assigned = {} THEN session
    ELSE [session EXCEPT ![table] = (id :> assigned) @@ @]

----------------------------------------------------------------------------
(* Commits *)

\* InsertItems with the foreign key taken from the item's own wishlist_id
RECURSIVE InsertItems_own_wishlist_id(_, _, _, _)
InsertItems_own_wishlist_id(tbl, seq, wishlist_id, objs) ==
    IF objs = <<>> THEN [ok |-> TRUE, tbl |-> tbl, seq |-> seq]
    ELSE LET o == Head(objs)
             seq2 == IF o.id = None THEN seq + 1 ELSE seq
             id == IF o.id = None THEN seq + 1 ELSE Val(o.id)
         IN IF id \in DOMAIN tbl
            THEN [ok |-> FALSE, tbl |-> tbl, seq |-> seq2]
            ELSE InsertItems_own_wishlist_id((id :> ItemRow(o)) @@ tbl, seq2,
                                             wishlist_id, Tail(objs))

\* INSERT of the new items of a wishlist's collection, in list order, into
\* tbl: an item with an id attribute is inserted under that id, one without
\* takes the sequence's next value; the foreign key is the parent's id.
\* ok is FALSE when an id is already taken (IntegrityError).
RECURSIVE InsertItems(_, _, _, _)
InsertItems(tbl, seq, wishlist_id, objs) ==
    IF objs = <<>> THEN [ok |-> TRUE, tbl |-> tbl, seq |-> seq]
    ELSE LET o == Head(objs)
             seq2 == IF o.id = None THEN seq + 1 ELSE seq
             id == IF o.id = None THEN seq + 1 ELSE Val(o.id)
         IN IF id \in DOMAIN tbl
            THEN [ok |-> FALSE, tbl |-> tbl, seq |-> seq2]
            ELSE InsertItems(
                    (id :> ItemRow([o EXCEPT !.wishlist_id = wishlist_id])) @@ tbl,
                    seq2, wishlist_id, Tail(objs))

\* db.session.commit() (or add, or delete) raises while the request in
\* flight is handled
StorageRaises == request.fault

\* WishlistItem.update with the "if not self.id" test made after the commit:
\* the row is written under its old key before the error is raised
WishlistItem_update_commit_first(item_id, self) ==
    [ok |-> FALSE,
     tbl |-> (item_id :> ItemRow(self)) @@ Without(item_table, {item_id})]

\* WishlistItem.update without db.session.rollback(): what the failed
\* transaction wrote stays
WishlistItem_update_no_rollback(item_id, self) ==
    IF self.id = None
    THEN [ok |-> FALSE, tbl |-> item_table]
    ELSE [ok |-> ~StorageRaises /\ Val(self.id) \notin DOMAIN Without(item_table, {item_id}) /\ self.wishlist_id \in DOMAIN wishlist_table,
          tbl |-> (Val(self.id) :> ItemRow(self)) @@ Without(item_table, {item_id})]

\* WishlistItem.update on the object loaded from row item_id, whose
\* attributes are now self: DataValidationError (ok is FALSE) when the id is
\* empty, and when the UPDATE fails on a key already taken or on a
\* wishlist_id that is no wishlist's (IntegrityError, rolled back); else the
\* UPDATE writes every attribute, the key included
WishlistItem_update(item_id, self) ==
    LET others == Without(item_table, {item_id})
    IN IF self.id = None
       THEN [ok |-> FALSE, tbl |-> item_table]
       ELSE IF StorageRaises
                 \/ Val(self.id) \in DOMAIN others
                 \/ self.wishlist_id \notin DOMAIN wishlist_table
       THEN [ok |-> FALSE, tbl |-> item_table]
       ELSE [ok |-> TRUE, tbl |-> (Val(self.id) :> ItemRow(self)) @@ others]

\* Wishlist.update on the object loaded from row wishlist_id, whose column
\* attributes are now self and whose collection is as loaded:
\* DataValidationError (ok is FALSE) when the id is empty
Wishlist_update(wishlist_id, self) ==
    IF self.id = None \/ StorageRaises
    THEN [ok |-> FALSE, tbl |-> wishlist_table]
    ELSE [ok |-> TRUE,
          tbl |-> [wishlist_table EXCEPT ![wishlist_id] = WishlistRow(self)]]

----------------------------------------------------------------------------
(* Request bodies and query strings the clients send *)

ItemBody(id, wishlist_id, product_name, product_price, category) ==
    [id |-> id, wishlist_id |-> wishlist_id, product_id |-> JNum(1),
     product_name |-> product_name, product_description |-> JStr("d"),
     product_price |-> product_price, category |-> category,
     quantity |-> JAbsent]

\* bodies that deserialize: two names, two prices, with and without a
\* category, every pair of values of two fields together in some body; the
\* last price has a third decimal
GoodItemBodies ==
    {ItemBody(JAbsent, JAbsent, JStr("a"), JNum(1000), JStr("x")),
     ItemBody(JAbsent, JAbsent, JStr("a"), JNum(2000), JAbsent),
     ItemBody(JAbsent, JAbsent, JStr("b"), JNum(2000), JStr("x")),
     ItemBody(JAbsent, JAbsent, JStr("b"), JNum(1000), JAbsent),
     ItemBody(JAbsent, JAbsent, JStr("b"), JNum(1004), JAbsent)}

\* bodies that carry an id and a wishlist_id of their own
IdItemBodies ==
    {ItemBody(JNum(i), JNum(w), JStr("b"), JNum(1000), JAbsent) :
        i \in ItemIds, w \in WishlistIds}

\* bodies deserialize rejects: no product_name, a price that is no number
BadItemBodies ==
    {ItemBody(JAbsent, JAbsent, JAbsent, JNum(1000), JAbsent),
     ItemBody(JAbsent, JAbsent, JStr("a"), JStr("abc"), JAbsent)}

\* bodies that give a quantity: a negative integer, and a string
QuantityItemBodies ==
    {[ItemBody(JAbsent, JAbsent, JStr("a"), JNum(1000), JAbsent)
        EXCEPT !.quantity = q] : q \in {JNum(-1), JStr("not-an-int")}}

ItemBodies ==
    GoodItemBodies \cup IdItemBodies \cup BadItemBodies \cup QuantityItemBodies

WishlistBody(id, name, customer_id, is_public, is_list, list) ==
    [id |-> id, name |-> name, customer_id |-> customer_id, description |-> JAbsent,
     is_public |-> is_public,
     wishlist_items |-> [is_list |-> is_list, list |-> list]]

\* the item lists a wishlist body carries: none, or one element
BodyItemLists ==
    {<<>>} \cup {<<b>> : b \in IdItemBodies}
           \cup {<<ItemBody(JAbsent, JNum(1), JStr("b"), JNum(2000), JStr("x"))>>,
                 <<ItemBody(JAbsent, JAbsent, JStr("a"), JNum(1000), JAbsent)>>}

GoodWishlistBodies ==
    {WishlistBody(JAbsent, JStr(n), JStr(c), p, TRUE, l) :
        n \in WishlistNames, c \in CustomerIds,
        p \in {JAbsent, JBool(TRUE)}, l \in BodyItemLists}

\* bodies that carry an id of their own
IdWishlistBodies ==
    {WishlistBody(JNum(i), JStr("a"), JStr("c1"), JAbsent, TRUE, <<>>) :
        i \in WishlistIds}

\* bodies deserialize rejects: no name, no customer_id, is_public that is
\* no bool, wishlist_items that is no list
BadWishlistBodies ==
    {WishlistBody(JAbsent, JAbsent, JStr("c1"), JAbsent, TRUE, <<>>),
     WishlistBody(JAbsent, JStr("a"), JAbsent, JAbsent, TRUE, <<>>),
     WishlistBody(JAbsent, JStr("a"), JStr("c1"), JStr("yes"), TRUE, <<>>),
     WishlistBody(JAbsent, JStr("a"), JStr("c1"), JAbsent, FALSE, <<>>)}

WishlistBodies == GoodWishlistBodies \cup IdWishlistBodies \cup BadWishlistBodies

\* data given to deserialize by code that uses the model without the
\* routes: an item without id or with one, for some wishlist
ModelItemData ==
    {ItemBody(JAbsent, JNum(w), JStr("b"), JNum(2000), JStr("x")) : w \in WishlistIds}
        \cup IdItemBodies

\* a wishlist without id or with one
ModelWishlistData ==
    {WishlistBody(i, JStr("a"), JStr("c1"), JBool(TRUE), TRUE, <<>>) :
        i \in {JAbsent} \cup {JNum(w) : w \in WishlistIds}}

\* the query string of GET /wishlists: each parameter absent (None) or
\* present with its text
WishlistQueries ==
    [customer_id : {None, Some("c1"), Some("c2")},
     name : {None, Some(""), Some("A"), Some("_")},
     is_public : {None, Some("true"), Some("False"), Some("yes")}]

\* the query string of GET /wishlists/{id}/items: each parameter is absent
\* (None) or present with its raw text
ProductNameArgs == {None, Some(""), Some("a")}
CategoryArgs == {None, Some(""), Some("x")}
PriceArgs == {None} \cup {Some(r) : r \in RawPrices}

ItemQueries ==
    [product_name : ProductNameArgs, category : CategoryArgs,
     min_price : PriceArgs, max_price : PriceArgs]

----------------------------------------------------------------------------
(* Requests.  Every request has the same shape: the operation, the ids of  *)
(* its URL (0 where the URL has none), its query string and its body; the  *)
(* parts an operation does not have are empty.                             *)

NoArgs == [product_name |-> None, category |-> None,
           min_price |-> None, max_price |-> None]
NoItemBody == ItemBody(JAbsent, JAbsent, JAbsent, JAbsent, JAbsent)
NoWishlistBody == WishlistBody(JAbsent, JAbsent, JAbsent, JAbsent, TRUE, <<>>)

\* fault is TRUE when the storage layer is to raise at the commit the
\* request leads to, as the tests make it do by patching db.session
Request(op, wishlist_id, item_id, args, item, wishlist) ==
    [op |-> op, wishlist_id |-> wishlist_id, item_id |-> item_id,
     args |-> args, item |-> item, wishlist |-> wishlist, fault |-> FALSE,
     query |-> [customer_id |-> None, name |-> None, is_public |-> None]]

NoRequest == Request("none", 0, 0, NoArgs, NoItemBody, NoWishlistBody)

WishlistOps == {"get_wishlist", "delete_wishlist", "clear_wishlist",
                "publish_wishlist", "unpublish_wishlist", "copy_wishlist"}
ItemOps == {"get_item", "delete_item", "like_item"}

\* the operations that are one create(), update() or delete()
TransactionOps ==
    {"create_wishlist", "update_wishlist", "delete_wishlist",
     "create_item", "update_item", "delete_item",
     "publish_wishlist", "unpublish_wishlist",
     "WishlistItem.update", "Wishlist.update"}

FaultFreeRequests ==
    {Request("create_wishlist", 0, 0, NoArgs, NoItemBody, d) : d \in WishlistBodies}
    \cup {Request("update_wishlist", w, 0, NoArgs, NoItemBody, d) :
            w \in WishlistIds, d \in WishlistBodies}
    \cup {Request(op, w, 0, NoArgs, NoItemBody, NoWishlistBody) :
            op \in WishlistOps, w \in WishlistIds}
    \cup {Request("list_items", w, 0, a, NoItemBody, NoWishlistBody) :
            w \in WishlistIds, a \in ItemQueries}
    \cup {Request("create_item", w, 0, NoArgs, d, NoWishlistBody) :
            w \in WishlistIds, d \in ItemBodies}
    \cup {Request("update_item", w, i, NoArgs, d, NoWishlistBody) :
            w \in WishlistIds, i \in ItemIds, d \in ItemBodies}
    \cup {Request(op, w, i, NoArgs, NoItemBody, NoWishlistBody) :
            op \in ItemOps, w \in WishlistIds, i \in ItemIds}
    \cup {Request("WishlistItem.update", 0, i, NoArgs, d, NoWishlistBody) :
            i \in ItemIds, d \in ModelItemData}
    \cup {[Request("list_wishlists", 0, 0, NoArgs, NoItemBody, NoWishlistBody)
                EXCEPT !.query = q] : q \in WishlistQueries}
    \cup {Request("WishlistItem.serialize", 0, i, NoArgs, NoItemBody, NoWishlistBody) :
            i \in ItemIds}
    \cup UNION {{Request("Wishlist.update", w, 0, NoArgs, NoItemBody, d) :
                    d \in {m \in ModelWishlistData : m.id \in {JAbsent, JNum(w)}}} :
                 w \in WishlistIds}

\* every request, and every transaction with the storage layer failing
Requests ==
    FaultFreeRequests
        \cup {[r EXCEPT !.fault = TRUE] : r \in {q \in FaultFreeRequests :
                                                  q.op \in TransactionOps}}

\* how many values a request can take from each sequence
NewWishlists(r) == IF r.op \in {"create_wishlist", "copy_wishlist"} THEN 1 ELSE 0

NewItems(r) ==
    CASE r.op = "create_item" -> 1
      [] r.op \in {"create_wishlist", "update_wishlist"} ->
            Cardinality({k \in 1..Len(r.wishlist.wishlist_items.list) :
                            r.wishlist.wishlist_items.list[k].id.t = "absent"})
      [] r.op = "copy_wishlist" -> Cardinality(wishlist_items(r.wishlist_id))
      [] OTHER -> 0

\* the sequences stay within the model's bounds while r is handled
WithinBounds(r) ==
    /\ wishlist_id_seq + NewWishlists(r) <= MaxWishlistId
    /\ item_id_seq + NewItems(r) <= MaxItemId

\* a client sends a request
Receive ==
    /\ request = NoRequest
    /\ \E r \in Requests : WithinBounds(r) /\ request' = r
    /\ before' = store
    /\ UNCHANGED <<wishlist_table, item_table, wishlist_id_seq, item_id_seq, resp,
                   session>>

----------------------------------------------------------------------------
(* Handlers of service/routes.py.  Each action handles the request in      *)
(* flight as the handler's whole run: it reads the tables, commits its     *)
(* changes and leaves its response in resp.                                *)

\* api.abort(status.HTTP_404_NOT_FOUND, ...)
Abort404(op) == Response(op, HTTP_404_NOT_FOUND, 0, NoItems)

\* the DataValidationError handler
BadRequest(op) == Response(op, HTTP_400_BAD_REQUEST, 0, NoItems)

NoResponse == Response("none", 0, 0, NoItems)

\* the request in flight is dispatched to the handler of op
Handling(op) == request.op = op /\ resp = NoResponse

\* WishlistCollection.post with a create() that keeps the id of the body
\* and merges the row into the table
WishlistCollection_post_body_id ==
    /\ Handling("create_wishlist")
    /\ UNCHANGED <<request, before, session>>
    /\ LET data == request.wishlist
       IN IF ~Wishlist_deserialize_ok(data)
          THEN /\ resp' = BadRequest("create_wishlist")
               /\ UNCHANGED <<wishlist_table, item_table, wishlist_id_seq, item_id_seq>>
          ELSE IF StorageRaises
          THEN \* rollback, DataValidationError
               /\ resp' = BadRequest("create_wishlist")
               /\ UNCHANGED <<wishlist_table, item_table, wishlist_id_seq, item_id_seq>>
          ELSE LET \* create() sets id to None: the sequence gives the key
                   new_id == IF data.id.t = "number" THEN data.id.n
                             ELSE wishlist_id_seq + 1
                   wishlist == Wishlist_deserialize([id |-> None], data)
                   ins == InsertItems(item_table, item_id_seq, new_id,
                                      Wishlist_deserialize_items(data))
               IN /\ wishlist_id_seq' = IF data.id.t = "number" THEN wishlist_id_seq
                                        ELSE new_id
                  /\ item_id_seq' = ins.seq
                  /\ IF ins.ok
                     THEN /\ wishlist_table' =
                                (new_id :> WishlistRow(wishlist)) @@ wishlist_table
                          /\ item_table' = ins.tbl
                          /\ resp' = Response("create_wishlist", HTTP_201_CREATED,
                                              new_id, NoItems)
                     ELSE /\ UNCHANGED <<wishlist_table, item_table>>
                          /\ resp' = BadRequest("create_wishlist")

\* POST /wishlists
WishlistCollection_post ==
    /\ Handling("create_wishlist")
    /\ UNCHANGED <<request, before, session>>
    /\ LET data == request.wishlist
       IN IF ~Wishlist_deserialize_ok(data)
          THEN /\ resp' = BadRequest("create_wishlist")
               /\ UNCHANGED <<wishlist_table, item_table, wishlist_id_seq, item_id_seq>>
          ELSE IF StorageRaises
          THEN \* rollback, DataValidationError
               /\ resp' = BadRequest("create_wishlist")
               /\ UNCHANGED <<wishlist_table, item_table, wishlist_id_seq, item_id_seq>>
          ELSE LET \* create() sets id to None: the sequence gives the key
                   new_id == wishlist_id_seq + 1
                   wishlist == Wishlist_deserialize([id |-> None], data)
                   ins == InsertItems(item_table, item_id_seq, new_id,
                                      Wishlist_deserialize_items(data))
               IN /\ wishlist_id_seq' = new_id
                  /\ item_id_seq' = ins.seq
                  /\ IF ins.ok
                     THEN /\ wishlist_table' =
                                (new_id :> WishlistRow(wishlist)) @@ wishlist_table
                          /\ item_table' = ins.tbl
                          /\ resp' = Response("create_wishlist", HTTP_201_CREATED,
                                              new_id, NoItems)
                     ELSE /\ UNCHANGED <<wishlist_table, item_table>>
                          /\ resp' = BadRequest("create_wishlist")

\* is_public.lower() of the texts the clients send
LowerText(str) ==
    CASE str = "False" -> "false"
      [] OTHER -> str

\* Wishlist.serialize, the item collection left out
Wishlist_serialize(w) == [id |-> w] @@ wishlist_table[w]

\* GET /wishlists
WishlistCollection_get ==
    /\ Handling("list_wishlists")
    /\ UNCHANGED <<request, before, session>>
    /\ UNCHANGED <<wishlist_table, item_table, wishlist_id_seq, item_id_seq>>
    /\ LET customer_id == request.query.customer_id
           name == request.query.name
           is_public == request.query.is_public
           wishlists ==
               {w \in DOMAIN wishlist_table :
                   /\ customer_id # None
                         => wishlist_table[w].customer_id = Val(customer_id)
                   /\ Truthy(name)
                         => ILike(Chars(wishlist_table[w].name),
                                  <<"%">> \o Chars(Val(name)) \o <<"%">>)
                   /\ is_public # None
                         => wishlist_table[w].is_public
                               = (LowerText(Val(is_public)) = "true")}
       IN IF is_public # None
             /\ LowerText(Val(is_public)) \notin {"true", "false"}
          THEN resp' = BadRequest("list_wishlists")
          ELSE resp' = Response("list_wishlists", HTTP_200_OK, 0,
                                {Wishlist_serialize(w) : w \in wishlists})

\* what WishlistResource.get returns
WishlistResource_get_response(wishlist_id) ==
    IF Wishlist_find(wishlist_id) = None
    THEN Abort404("get_wishlist")
    ELSE Response("get_wishlist", HTTP_200_OK, 0, NoItems)

\* GET /wishlists/{wishlist_id}
WishlistResource_get ==
    /\ Handling("get_wishlist")
    /\ UNCHANGED <<request, before, session>>
    /\ resp' = WishlistResource_get_response(request.wishlist_id)
    /\ UNCHANGED <<wishlist_table, item_table, wishlist_id_seq, item_id_seq>>

\* WishlistResource.put with a collection that is extended, not replaced:
\* the items the wishlist had stay
WishlistResource_put_keeping_items ==
    /\ Handling("update_wishlist")
    /\ UNCHANGED <<request, before>>
    /\ session' = IF Wishlist_find(request.wishlist_id) # None
                     /\ ~Wishlist_deserialize_ok(request.wishlist)
                  THEN SessionAfterRaise("wishlists", request.wishlist_id,
                           Wishlist_deserialize_assigned(request.wishlist))
                  ELSE session
    /\ LET wishlist_id == request.wishlist_id
           data == request.wishlist
       IN IF Wishlist_find(wishlist_id) = None
          THEN /\ resp' = Abort404("update_wishlist")
               /\ UNCHANGED <<wishlist_table, item_table, wishlist_id_seq, item_id_seq>>
          ELSE IF ~Wishlist_deserialize_ok(data)
          THEN /\ resp' = BadRequest("update_wishlist")
               /\ UNCHANGED <<wishlist_table, item_table, wishlist_id_seq, item_id_seq>>
          ELSE IF StorageRaises
          THEN \* rollback, DataValidationError
               /\ resp' = BadRequest("update_wishlist")
               /\ UNCHANGED <<wishlist_table, item_table, wishlist_id_seq, item_id_seq>>
          ELSE LET original_id == WishlistObject(wishlist_id).id
                   wishlist == [Wishlist_deserialize(WishlistObject(wishlist_id), data)
                                   EXCEPT !.id = original_id]
                   ins == InsertItems(item_table,
                                      item_id_seq, Val(wishlist.id),
                                      Wishlist_deserialize_items(data))
               IN /\ item_id_seq' = ins.seq
                  /\ UNCHANGED wishlist_id_seq
                  /\ IF ins.ok
                     THEN /\ wishlist_table' =
                                (Val(wishlist.id) :> WishlistRow(wishlist))
                                    @@ Without(wishlist_table, {wishlist_id})
                          /\ item_table' = ins.tbl
                          /\ resp' = Response("update_wishlist", HTTP_200_OK,
                                              Val(wishlist.id), NoItems)
                     ELSE /\ UNCHANGED <<wishlist_table, item_table>>
                          /\ resp' = BadRequest("update_wishlist")

\* WishlistResource.put with a deserialize that leaves is_public as it is
\* when the body has none
WishlistResource_put_keeping_is_public ==
    /\ Handling("update_wishlist")
    /\ UNCHANGED <<request, before>>
    /\ session' = IF Wishlist_find(request.wishlist_id) # None
                     /\ ~Wishlist_deserialize_ok(request.wishlist)
                  THEN SessionAfterRaise("wishlists", request.wishlist_id,
                           Wishlist_deserialize_assigned(request.wishlist))
                  ELSE session
    /\ LET wishlist_id == request.wishlist_id
           data == request.wishlist
       IN IF Wishlist_find(wishlist_id) = None
          THEN /\ resp' = Abort404("update_wishlist")
               /\ UNCHANGED <<wishlist_table, item_table, wishlist_id_seq, item_id_seq>>
          ELSE IF ~Wishlist_deserialize_ok(data)
          THEN /\ resp' = BadRequest("update_wishlist")
               /\ UNCHANGED <<wishlist_table, item_table, wishlist_id_seq, item_id_seq>>
          ELSE IF StorageRaises
          THEN \* rollback, DataValidationError
               /\ resp' = BadRequest("update_wishlist")
               /\ UNCHANGED <<wishlist_table, item_table, wishlist_id_seq, item_id_seq>>
          ELSE LET original_id == WishlistObject(wishlist_id).id
                   wishlist == [Wishlist_deserialize(WishlistObject(wishlist_id), data)
                                   EXCEPT !.id = original_id,
                                          !.is_public =
                                              IF data.is_public.t = "absent"
                                              THEN wishlist_table[wishlist_id].is_public
                                              ELSE @]
                   \* the old collection is orphaned and deleted, the new one
                   \* inserted
                   ins == InsertItems(Without(item_table, wishlist_items(wishlist_id)),
                                      item_id_seq, Val(wishlist.id),
                                      Wishlist_deserialize_items(data))
               IN /\ item_id_seq' = ins.seq
                  /\ UNCHANGED wishlist_id_seq
                  /\ IF ins.ok
                     THEN /\ wishlist_table' =
                                (Val(wishlist.id) :> WishlistRow(wishlist))
                                    @@ Without(wishlist_table, {wishlist_id})
                          /\ item_table' = ins.tbl
                          /\ resp' = Response("update_wishlist", HTTP_200_OK,
                                              Val(wishlist.id), NoItems)
                     ELSE /\ UNCHANGED <<wishlist_table, item_table>>
                          /\ resp' = BadRequest("update_wishlist")

\* PUT /wishlists/{wishlist_id}
WishlistResource_put ==
    /\ Handling("update_wishlist")
    /\ UNCHANGED <<request, before>>
    /\ session' = IF Wishlist_find(request.wishlist_id) # None
                     /\ ~Wishlist_deserialize_ok(request.wishlist)
                  THEN SessionAfterRaise("wishlists", request.wishlist_id,
                           Wishlist_deserialize_assigned(request.wishlist))
                  ELSE session
    /\ LET wishlist_id == request.wishlist_id
           data == request.wishlist
       IN IF Wishlist_find(wishlist_id) = None
          THEN /\ resp' = Abort404("update_wishlist")
               /\ UNCHANGED <<wishlist_table, item_table, wishlist_id_seq, item_id_seq>>
          ELSE IF ~Wishlist_deserialize_ok(data)
          THEN /\ resp' = BadRequest("update_wishlist")
               /\ UNCHANGED <<wishlist_table, item_table, wishlist_id_seq, item_id_seq>>
          ELSE IF StorageRaises
          THEN \* rollback, DataValidationError
               /\ resp' = BadRequest("update_wishlist")
               /\ UNCHANGED <<wishlist_table, item_table, wishlist_id_seq, item_id_seq>>
          ELSE LET original_id == WishlistObject(wishlist_id).id
                   wishlist == [Wishlist_deserialize(WishlistObject(wishlist_id), data)
                                   EXCEPT !.id = original_id]
                   \* the old collection is orphaned and deleted, the new one
                   \* inserted
                   ins == InsertItems(Without(item_table, wishlist_items(wishlist_id)),
                                      item_id_seq, Val(wishlist.id),
                                      Wishlist_deserialize_items(data))
               IN /\ item_id_seq' = ins.seq
                  /\ UNCHANGED wishlist_id_seq
                  /\ IF ins.ok
                     THEN /\ wishlist_table' =
                                (Val(wishlist.id) :> WishlistRow(wishlist))
                                    @@ Without(wishlist_table, {wishlist_id})
                          /\ item_table' = ins.tbl
                          /\ resp' = Response("update_wishlist", HTTP_200_OK,
                                              Val(wishlist.id), NoItems)
                     ELSE /\ UNCHANGED <<wishlist_table, item_table>>
                          /\ resp' = BadRequest("update_wishlist")

\* WishlistResource.delete without the cascade to the items
WishlistResource_delete_no_cascade ==
    /\ Handling("delete_wishlist")
    /\ UNCHANGED <<request, before, session>>
    /\ wishlist_table' = Without(wishlist_table, {request.wishlist_id})
    /\ resp' = Response("delete_wishlist", HTTP_204_NO_CONTENT, 0, NoItems)
    /\ UNCHANGED <<item_table, wishlist_id_seq, item_id_seq>>

\* WishlistResource.delete aborting with 404 when there is no such wishlist
WishlistResource_delete_404_if_missing ==
    /\ Handling("delete_wishlist")
    /\ UNCHANGED <<request, before, session>>
    /\ LET wishlist_id == request.wishlist_id
       IN IF Wishlist_find(wishlist_id) = None
          THEN /\ UNCHANGED <<wishlist_table, item_table>>
               /\ resp' = Abort404("delete_wishlist")
          ELSE IF StorageRaises
          THEN /\ UNCHANGED <<wishlist_table, item_table>>
               /\ resp' = BadRequest("delete_wishlist")
          ELSE /\ wishlist_table' = Without(wishlist_table, {wishlist_id})
               /\ item_table' = Without(item_table, wishlist_items(wishlist_id))
               /\ resp' = Response("delete_wishlist", HTTP_204_NO_CONTENT,
                                   0, NoItems)
    /\ UNCHANGED <<wishlist_id_seq, item_id_seq>>

\* DELETE /wishlists/{wishlist_id}: the delete cascades to the items
WishlistResource_delete ==
    /\ Handling("delete_wishlist")
    /\ UNCHANGED <<request, before, session>>
    /\ LET wishlist_id == request.wishlist_id
       IN IF Wishlist_find(wishlist_id) # None /\ StorageRaises
          THEN \* rollback, DataValidationError
               /\ UNCHANGED <<wishlist_table, item_table>>
               /\ resp' = BadRequest("delete_wishlist")
          ELSE /\ IF Wishlist_find(wishlist_id) # None
                  THEN /\ wishlist_table' = Without(wishlist_table, {wishlist_id})
                       /\ item_table' = Without(item_table,
                                                wishlist_items(wishlist_id))
                  ELSE UNCHANGED <<wishlist_table, item_table>>
               /\ resp' = Response("delete_wishlist", HTTP_204_NO_CONTENT,
                                   0, NoItems)
    /\ UNCHANGED <<wishlist_id_seq, item_id_seq>>

\* WishlistItemCollection.get answering 404 when the wishlist has no item
\* to return
WishlistItemCollection_get_response_404_if_empty(wishlist_id, args) ==
    IF Wishlist_find(wishlist_id) = None
    THEN Abort404("list_items")
    ELSE LET items == find_with_filters(wishlist_id, args.product_name,
                                        args.category, ParseFloat(args.min_price),
                                        ParseFloat(args.max_price))
         IN IF items = {}
            THEN Abort404("list_items")
            ELSE Response("list_items", HTTP_200_OK, 0,
                          {WishlistItem_serialize(item) : item \in items})

\* what WishlistItemCollection.get returns for the query string args
WishlistItemCollection_get_response(wishlist_id, args) ==
    IF Wishlist_find(wishlist_id) = None
    THEN Abort404("list_items")
    ELSE LET product_name == args.product_name
             category == args.category
             min_price == ParseFloat(args.min_price)
             max_price == ParseFloat(args.max_price)
             items == find_with_filters(wishlist_id, product_name, category,
                                        min_price, max_price)
         IN Response("list_items", HTTP_200_OK, 0,
                     {WishlistItem_serialize(item) : item \in items})

\* WishlistItemCollection.get deleting the rows it has read
WishlistItemCollection_get_consuming ==
    /\ Handling("list_items")
    /\ UNCHANGED <<request, before, session>>
    /\ resp' = WishlistItemCollection_get_response(request.wishlist_id, request.args)
    /\ item_table' = Without(item_table, wishlist_items(request.wishlist_id))
    /\ UNCHANGED <<wishlist_table, wishlist_id_seq, item_id_seq>>

\* GET /wishlists/{wishlist_id}/items
WishlistItemCollection_get ==
    /\ Handling("list_items")
    /\ UNCHANGED <<request, before, session>>
    /\ resp' = WishlistItemCollection_get_response(request.wishlist_id, request.args)
    /\ UNCHANGED <<wishlist_table, item_table, wishlist_id_seq, item_id_seq>>

\* WishlistItemCollection.post without 'data["wishlist_id"] = wishlist_id':
\* the wishlist_id of the body stays
WishlistItemCollection_post_body_wishlist_id ==
    /\ Handling("create_item")
    /\ UNCHANGED <<request, before, session>>
    /\ LET wishlist_id == request.wishlist_id
           data == request.item
       IN IF Wishlist_find(wishlist_id) = None
          THEN /\ resp' = Abort404("create_item")
               /\ UNCHANGED <<wishlist_table, item_table, wishlist_id_seq, item_id_seq>>
          ELSE IF ~WishlistItem_deserialize_ok(data) \/ StorageRaises
          THEN /\ resp' = BadRequest("create_item")
               /\ UNCHANGED <<wishlist_table, item_table, wishlist_id_seq, item_id_seq>>
          ELSE LET item == [WishlistItem_deserialize(data) EXCEPT !.id = None]
                   new_id == item_id_seq + 1
               IN /\ item_id_seq' = new_id
                  /\ UNCHANGED <<wishlist_table, wishlist_id_seq>>
                  /\ IF new_id \in DOMAIN item_table
                        \/ item.wishlist_id \notin DOMAIN wishlist_table
                     THEN /\ UNCHANGED item_table
                          /\ resp' = BadRequest("create_item")
                     ELSE /\ item_table' = (new_id :> ItemRow(item)) @@ item_table
                          /\ resp' = Response("create_item", HTTP_201_CREATED,
                                              new_id, NoItems)

\* POST /wishlists/{wishlist_id}/items
WishlistItemCollection_post ==
    /\ Handling("create_item")
    /\ UNCHANGED <<request, before, session>>
    /\ LET wishlist_id == request.wishlist_id
           data == [request.item EXCEPT !.wishlist_id = JNum(wishlist_id)]
       IN IF Wishlist_find(wishlist_id) = None
          THEN /\ resp' = Abort404("create_item")
               /\ UNCHANGED <<wishlist_table, item_table, wishlist_id_seq, item_id_seq>>
          ELSE IF ~WishlistItem_deserialize_ok(data)
          THEN /\ resp' = BadRequest("create_item")
               /\ UNCHANGED <<wishlist_table, item_table, wishlist_id_seq, item_id_seq>>
          ELSE IF StorageRaises
          THEN \* rollback, DataValidationError
               /\ resp' = BadRequest("create_item")
               /\ UNCHANGED <<wishlist_table, item_table, wishlist_id_seq, item_id_seq>>
          ELSE LET \* create() sets id to None: the sequence gives the key
                   item == [WishlistItem_deserialize(data) EXCEPT !.id = None]
                   new_id == item_id_seq + 1
               IN /\ item_id_seq' = new_id
                  /\ UNCHANGED <<wishlist_table, wishlist_id_seq>>
                  /\ IF new_id \in DOMAIN item_table
                     THEN /\ UNCHANGED item_table
                          /\ resp' = BadRequest("create_item")
                     ELSE /\ item_table' = (new_id :> ItemRow(item)) @@ item_table
                          /\ resp' = Response("create_item", HTTP_201_CREATED,
                                              new_id, NoItems)

\* the lookup without "item.wishlist_id != wishlist_id"
ItemInWishlist_any_wishlist(wishlist_id, item_id) == WishlistItem_find(item_id) # None

\* the lookup the item handlers share: the item exists and is the wishlist's
ItemInWishlist(wishlist_id, item_id) ==
    /\ WishlistItem_find(item_id) # None
    /\ item_table[item_id].wishlist_id = wishlist_id

\* GET /wishlists/{wishlist_id}/items/{item_id}
WishlistItemResource_get ==
    /\ Handling("get_item")
    /\ UNCHANGED <<request, before, session>>
    /\ LET wishlist_id == request.wishlist_id
           item_id == request.item_id
       IN resp' = IF ~ItemInWishlist(wishlist_id, item_id)
                  THEN Abort404("get_item")
                  ELSE Response("get_item", HTTP_200_OK, 0,
                                {WishlistItem_serialize(item_id)})
    /\ UNCHANGED <<wishlist_table, item_table, wishlist_id_seq, item_id_seq>>

\* WishlistItemResource.put without "item.id = original_id": the id that
\* deserialize took from the body stays
WishlistItemResource_put_body_id ==
    /\ Handling("update_item")
    /\ UNCHANGED <<request, before>>
    /\ LET data == [request.item EXCEPT !.wishlist_id = JNum(request.wishlist_id)]
       IN session' = IF ItemInWishlist(request.wishlist_id, request.item_id)
                        /\ ~WishlistItem_deserialize_ok(data)
                     THEN SessionAfterRaise("items", request.item_id,
                              WishlistItem_deserialize_assigned(data))
                     ELSE session
    /\ UNCHANGED <<wishlist_table, wishlist_id_seq, item_id_seq>>
    /\ LET wishlist_id == request.wishlist_id
           item_id == request.item_id
           data == [request.item EXCEPT !.wishlist_id = JNum(wishlist_id)]
       IN IF ~ItemInWishlist(wishlist_id, item_id)
          THEN /\ resp' = Abort404("update_item")
               /\ UNCHANGED item_table
          ELSE IF ~WishlistItem_deserialize_ok(data)
          THEN /\ resp' = BadRequest("update_item")
               /\ UNCHANGED item_table
          ELSE LET item == WishlistItem_deserialize(data)
                   others == Without(item_table, {item_id})
               IN IF item.id = None \/ Val(item.id) \in DOMAIN others
                  THEN /\ UNCHANGED item_table
                       /\ resp' = BadRequest("update_item")
                  ELSE /\ item_table' = (Val(item.id) :> ItemRow(item)) @@ others
                       /\ resp' = Response("update_item", HTTP_200_OK,
                                           Val(item.id), NoItems)

\* PUT /wishlists/{wishlist_id}/items/{item_id}
WishlistItemResource_put ==
    /\ Handling("update_item")
    /\ UNCHANGED <<request, before>>
    /\ LET data == [request.item EXCEPT !.wishlist_id = JNum(request.wishlist_id)]
       IN session' = IF ItemInWishlist(request.wishlist_id, request.item_id)
                        /\ ~WishlistItem_deserialize_ok(data)
                     THEN SessionAfterRaise("items", request.item_id,
                              WishlistItem_deserialize_assigned(data))
                     ELSE session
    /\ UNCHANGED <<wishlist_table, wishlist_id_seq, item_id_seq>>
    /\ LET wishlist_id == request.wishlist_id
           item_id == request.item_id
           data == [request.item EXCEPT !.wishlist_id = JNum(wishlist_id)]
       IN IF ~ItemInWishlist(wishlist_id, item_id)
          THEN /\ resp' = Abort404("update_item")
               /\ UNCHANGED item_table
          ELSE IF ~WishlistItem_deserialize_ok(data)
          THEN /\ resp' = BadRequest("update_item")
               /\ UNCHANGED item_table
          ELSE LET original_id == ItemObject(item_id).id
                   item == [WishlistItem_deserialize(data) EXCEPT !.id = original_id]
                   updated == WishlistItem_update(item_id, item)
               IN /\ item_table' = updated.tbl
                  /\ resp' = IF updated.ok
                             THEN Response("update_item", HTTP_200_OK,
                                           Val(item.id), NoItems)
                             ELSE BadRequest("update_item")

\* WishlistItemResource.delete without the comparison of item.wishlist_id
\* with the wishlist of the path
WishlistItemResource_delete_any_wishlist ==
    /\ Handling("delete_item")
    /\ UNCHANGED <<request, before, session>>
    /\ LET item_id == request.item_id
       IN IF WishlistItem_find(item_id) # None /\ StorageRaises
          THEN /\ UNCHANGED item_table
               /\ resp' = BadRequest("delete_item")
          ELSE /\ item_table' = Without(item_table, {item_id})
               /\ resp' = Response("delete_item", HTTP_204_NO_CONTENT, 0, NoItems)
    /\ UNCHANGED <<wishlist_table, wishlist_id_seq, item_id_seq>>

\* DELETE /wishlists/{wishlist_id}/items/{item_id}
WishlistItemResource_delete ==
    /\ Handling("delete_item")
    /\ UNCHANGED <<request, before, session>>
    /\ LET wishlist_id == request.wishlist_id
           item_id == request.item_id
       IN IF ItemInWishlist(wishlist_id, item_id) /\ StorageRaises
          THEN \* rollback, DataValidationError
               /\ UNCHANGED item_table
               /\ resp' = BadRequest("delete_item")
          ELSE /\ IF ItemInWishlist(wishlist_id, item_id)
                  THEN item_table' = Without(item_table, {item_id})
                  ELSE UNCHANGED item_table
               /\ resp' = Response("delete_item", HTTP_204_NO_CONTENT, 0, NoItems)
    /\ UNCHANGED <<wishlist_table, wishlist_id_seq, item_id_seq>>

\* ClearWishlist.post treating a missing wishlist as WishlistResource.delete
\* does: nothing to do, and success
ClearWishlist_post_lenient ==
    /\ Handling("clear_wishlist")
    /\ UNCHANGED <<request, before, session>>
    /\ item_table' = Without(item_table, wishlist_items(request.wishlist_id))
    /\ resp' = Response("clear_wishlist", HTTP_200_OK, 0, NoItems)
    /\ UNCHANGED <<wishlist_table, wishlist_id_seq, item_id_seq>>

\* ClearWishlist.post deleting every item of the table
ClearWishlist_post_every_item ==
    /\ Handling("clear_wishlist")
    /\ UNCHANGED <<request, before, session>>
    /\ LET wishlist_id == request.wishlist_id
       IN IF Wishlist_find(wishlist_id) = None
          THEN /\ resp' = Abort404("clear_wishlist")
               /\ UNCHANGED item_table
          ELSE /\ item_table' = <<>>
               /\ resp' = Reporting(Response("clear_wishlist", HTTP_200_OK,
                                             wishlist_id, NoItems), JNum(0))
    /\ UNCHANGED <<wishlist_table, wishlist_id_seq, item_id_seq>>

\* POST /wishlists/{wishlist_id}/clear: every item of the wishlist is deleted
ClearWishlist_post ==
    /\ Handling("clear_wishlist")
    /\ UNCHANGED <<request, before, session>>
    /\ LET wishlist_id == request.wishlist_id
       IN IF Wishlist_find(wishlist_id) = None
          THEN /\ resp' = Abort404("clear_wishlist")
               /\ UNCHANGED item_table
          ELSE \* one item.delete() per item of the collection;
               \* "items_remaining": 0
               /\ item_table' = Without(item_table, wishlist_items(wishlist_id))
               /\ resp' = Reporting(Response("clear_wishlist", HTTP_200_OK,
                                             wishlist_id, NoItems), JNum(0))
    /\ UNCHANGED <<wishlist_table, wishlist_id_seq, item_id_seq>>

\* PublishWishlist.post and UnpublishWishlist.post inverting is_public
\* instead of assigning it
SetPublic_toggle(op, wishlist_id, is_public) ==
    /\ IF Wishlist_find(wishlist_id) = None
       THEN /\ resp' = Abort404(op)
            /\ UNCHANGED wishlist_table
       ELSE LET wishlist == [WishlistObject(wishlist_id) EXCEPT
                                !.is_public = ~wishlist_table[wishlist_id].is_public]
                updated == Wishlist_update(wishlist_id, wishlist)
            IN /\ wishlist_table' = updated.tbl
               /\ resp' = IF updated.ok
                          THEN Reporting(Response(op, HTTP_200_OK, wishlist_id,
                                                  NoItems),
                                         JBool(wishlist.is_public))
                          ELSE BadRequest(op)
    /\ UNCHANGED <<item_table, wishlist_id_seq, item_id_seq>>

\* the body of PublishWishlist.post and UnpublishWishlist.post: is_public
\* is assigned, update() commits, the response reports wishlist.is_public
SetPublic(op, wishlist_id, is_public) ==
    /\ IF Wishlist_find(wishlist_id) = None
       THEN /\ resp' = Abort404(op)
            /\ UNCHANGED wishlist_table
       ELSE LET wishlist == [WishlistObject(wishlist_id) EXCEPT
                                !.is_public = is_public]
                updated == Wishlist_update(wishlist_id, wishlist)
            IN /\ wishlist_table' = updated.tbl
               /\ resp' = IF updated.ok
                          THEN Reporting(Response(op, HTTP_200_OK, wishlist_id,
                                                  NoItems),
                                         JBool(wishlist.is_public))
                          ELSE BadRequest(op)
    /\ UNCHANGED <<item_table, wishlist_id_seq, item_id_seq>>

\* POST /wishlists/{wishlist_id}/publish
PublishWishlist_post ==
    /\ Handling("publish_wishlist")
    /\ UNCHANGED <<request, before, session>>
    /\ SetPublic("publish_wishlist", request.wishlist_id, TRUE)

\* POST /wishlists/{wishlist_id}/unpublish
UnpublishWishlist_post ==
    /\ Handling("unpublish_wishlist")
    /\ UNCHANGED <<request, before, session>>
    /\ SetPublic("unpublish_wishlist", request.wishlist_id, FALSE)

\* POST /wishlists/{wishlist_id}/items/{item_id}/like: WishlistItem has no
\* attribute "likes", so reading item.likes raises AttributeError and the
\* request ends 500 before anything is written
LikeWishlistItem_post ==
    /\ Handling("like_item")
    /\ UNCHANGED <<request, before, session>>
    /\ LET wishlist_id == request.wishlist_id
           item_id == request.item_id
       IN resp' = IF ~ItemInWishlist(wishlist_id, item_id)
                  THEN Abort404("like_item")
                  ELSE Response("like_item", HTTP_500_INTERNAL_SERVER_ERROR, 0,
                                NoItems)
    /\ UNCHANGED <<wishlist_table, item_table, wishlist_id_seq, item_id_seq>>

\* the orders in which a wishlist's collection can be iterated
Orders(S) == {o \in [1..Cardinality(S) -> S] :
                \A j, k \in 1..Cardinality(S) : j # k => o[j] # o[k]}

\* the loop of CopyWishlist.post: one create() per original item, each with
\* the sequence's next value as key; the loop ends at the first create()
\* that fails (ok is FALSE), the items created before it stay
RECURSIVE CopyItems(_, _, _, _)
CopyItems(tbl, seq, new_wishlist_id, order) ==
    IF order = <<>> THEN [ok |-> TRUE, tbl |-> tbl, seq |-> seq]
    ELSE LET original_item == ItemObject(Head(order))
             new_item == [original_item EXCEPT !.id = None,
                                               !.wishlist_id = new_wishlist_id]
             new_id == seq + 1
         IN IF new_id \in DOMAIN tbl
            THEN [ok |-> FALSE, tbl |-> tbl, seq |-> new_id]
            ELSE CopyItems((new_id :> ItemRow(new_item)) @@ tbl, new_id,
                           new_wishlist_id, Tail(order))

\* CopyWishlist.post copying is_public as it copies the other fields
CopyWishlist_post_keeping_is_public ==
    /\ Handling("copy_wishlist")
    /\ UNCHANGED <<request, before, session>>
    /\ LET wishlist_id == request.wishlist_id
       IN IF Wishlist_find(wishlist_id) = None
          THEN /\ resp' = Abort404("copy_wishlist")
               /\ UNCHANGED <<wishlist_table, item_table, wishlist_id_seq, item_id_seq>>
          ELSE \E order \in Orders(wishlist_items(wishlist_id)) :
               LET original_wishlist == WishlistObject(wishlist_id)
                   new_id == wishlist_id_seq + 1
                   new_wishlist == [id |-> None,
                                    name |-> "Copy of " \o original_wishlist.name,
                                    description |-> original_wishlist.description,
                                    customer_id |-> original_wishlist.customer_id,
                                    is_public |-> original_wishlist.is_public]
                   copied == CopyItems(item_table, item_id_seq, new_id, order)
               IN /\ wishlist_id_seq' = new_id
                  /\ item_id_seq' = copied.seq
                  /\ wishlist_table' =
                        (new_id :> WishlistRow(new_wishlist)) @@ wishlist_table
                  /\ item_table' = copied.tbl
                  /\ resp' = IF copied.ok
                             THEN Response("copy_wishlist", HTTP_201_CREATED,
                                           new_id, NoItems)
                             ELSE BadRequest("copy_wishlist")

\* POST /wishlists/{wishlist_id}/copy
CopyWishlist_post ==
    /\ Handling("copy_wishlist")
    /\ UNCHANGED <<request, before, session>>
    /\ LET wishlist_id == request.wishlist_id
       IN IF Wishlist_find(wishlist_id) = None
          THEN /\ resp' = Abort404("copy_wishlist")
               /\ UNCHANGED <<wishlist_table, item_table, wishlist_id_seq, item_id_seq>>
          ELSE \E order \in Orders(wishlist_items(wishlist_id)) :
               LET original_wishlist == WishlistObject(wishlist_id)
                   new_id == wishlist_id_seq + 1
                   new_wishlist == [id |-> None,
                                    name |-> "Copy of " \o original_wishlist.name,
                                    description |-> original_wishlist.description,
                                    customer_id |-> original_wishlist.customer_id,
                                    is_public |-> FALSE]
                   copied == CopyItems(item_table, item_id_seq, new_id, order)
               IN /\ wishlist_id_seq' = new_id
                  /\ item_id_seq' = copied.seq
                  /\ wishlist_table' =
                        (new_id :> WishlistRow(new_wishlist)) @@ wishlist_table
                  /\ item_table' = copied.tbl
                  /\ resp' = IF copied.ok
                             THEN Response("copy_wishlist", HTTP_201_CREATED,
                                           new_id, NoItems)
                             ELSE BadRequest("copy_wishlist")

----------------------------------------------------------------------------
(* The model used without the routes, as the model's tests and the CLI use *)
(* it.  The answer's status is 400 when the call raises                    *)
(* DataValidationError (the status the routes give that error), 404 when   *)
(* find returns None and nothing is called, 200 when the call returns.     *)

\* item = WishlistItem.find(item_id); item.deserialize(data); item.update()
Model_WishlistItem_update ==
    /\ Handling("WishlistItem.update")
    /\ UNCHANGED <<request, before, session>>
    /\ UNCHANGED <<wishlist_table, wishlist_id_seq, item_id_seq>>
    /\ LET item_id == request.item_id
           data == request.item
       IN IF WishlistItem_find(item_id) = None
          THEN /\ resp' = Abort404("WishlistItem.update")
               /\ UNCHANGED item_table
          ELSE IF ~WishlistItem_deserialize_ok(data)
          THEN /\ resp' = BadRequest("WishlistItem.update")
               /\ UNCHANGED item_table
          ELSE LET item == WishlistItem_deserialize(data)
                   updated == WishlistItem_update(item_id, item)
               IN /\ item_table' = updated.tbl
                  /\ resp' = IF updated.ok
                             THEN Response("WishlistItem.update", HTTP_200_OK,
                                           Val(item.id), NoItems)
                             ELSE BadRequest("WishlistItem.update")

\* wishlist = Wishlist.find(wishlist_id); the column attributes and the id
\* are assigned from data (the id None when data has none); wishlist.update()
Model_Wishlist_update ==
    /\ Handling("Wishlist.update")
    /\ UNCHANGED <<request, before, session>>
    /\ UNCHANGED <<item_table, wishlist_id_seq, item_id_seq>>
    /\ LET wishlist_id == request.wishlist_id
           data == request.wishlist
       IN IF Wishlist_find(wishlist_id) = None
          THEN /\ resp' = Abort404("Wishlist.update")
               /\ UNCHANGED wishlist_table
          ELSE LET loaded == [WishlistObject(wishlist_id) EXCEPT
                                !.name = data.name.s,
                                !.customer_id = data.customer_id.s,
                                !.is_public = (data.is_public.n = 1)]
                   wishlist == [loaded EXCEPT
                                  !.id = IF data.id.t = "number"
                                         THEN Some(data.id.n) ELSE None]
                   updated == Wishlist_update(wishlist_id, wishlist)
               IN /\ wishlist_table' = updated.tbl
                  /\ resp' = IF updated.ok
                             THEN Response("Wishlist.update", HTTP_200_OK,
                                           Val(wishlist.id), NoItems)
                             ELSE BadRequest("Wishlist.update")

\* item = WishlistItem.find(item_id);
\* new_item = WishlistItem(); new_item.deserialize(item.serialize()):
\* the answer carries the attributes of new_item
Model_WishlistItem_serialize ==
    /\ Handling("WishlistItem.serialize")
    /\ UNCHANGED <<request, before, session>>
    /\ UNCHANGED <<wishlist_table, item_table, wishlist_id_seq, item_id_seq>>
    /\ LET item_id == request.item_id
       IN IF WishlistItem_find(item_id) = None
          THEN resp' = Abort404("WishlistItem.serialize")
          ELSE LET data == AsData(WishlistItem_serialize(item_id))
               IN IF ~WishlistItem_deserialize_ok(data)
                  THEN resp' = BadRequest("WishlistItem.serialize")
                  ELSE resp' = Response("WishlistItem.serialize", HTTP_200_OK,
                                        item_id, {WishlistItem_deserialize(data)})

----------------------------------------------------------------------------
(* The service: empty tables and fresh sequences at the start, then any    *)
(* request at any time, one at a time                                     *)

Init ==
    /\ wishlist_table = <<>>
    /\ item_table = <<>>
    /\ wishlist_id_seq = 0
    /\ item_id_seq = 0
    /\ request = NoRequest
    /\ resp = NoResponse
    /\ session = NoSession
    /\ before = NoStore

\* Reply without the removal of the session: the objects the request left
\* changed stay in it
Reply_keeping_session ==
    /\ resp # NoResponse
    /\ request' = NoRequest
    /\ resp' = NoResponse
    /\ before' = NoStore
    /\ UNCHANGED session
    /\ UNCHANGED <<wishlist_table, item_table, wishlist_id_seq, item_id_seq>>

\* the response is sent and the request is over: the application context
\* is torn down and the session removed, its uncommitted changes with it
Reply ==
    /\ resp # NoResponse
    /\ request' = NoRequest
    /\ resp' = NoResponse
    /\ before' = NoStore
    /\ session' = NoSession
    /\ UNCHANGED <<wishlist_table, item_table, wishlist_id_seq, item_id_seq>>

Next ==
    \/ Receive
    \/ Reply
    \/ WishlistCollection_post
    \/ WishlistResource_get
    \/ WishlistResource_put
    \/ WishlistResource_delete
    \/ WishlistItemCollection_get
    \/ WishlistItemCollection_post
    \/ WishlistItemResource_get
    \/ WishlistItemResource_put
    \/ WishlistItemResource_delete
    \/ ClearWishlist_post
    \/ PublishWishlist_post
    \/ UnpublishWishlist_post
    \/ LikeWishlistItem_post
    \/ CopyWishlist_post
    \/ Model_WishlistItem_update
    \/ Model_Wishlist_update
    \/ WishlistCollection_get
    \/ Model_WishlistItem_serialize

Spec == Init /\ [][Next]_vars

----------------------------------------------------------------------------
(* What the claims speak of.  Once a handler has run, request is the       *)
(* request it handled, resp its answer, before the tables it found and     *)
(* wishlist_table, item_table the tables it left.                          *)

\* the handler of op has run
Handled(op) == request.op = op /\ resp # NoResponse

\* the tables when the request arrived
wishlists_before == before[1]
items_before == before[2]

\* wishlist w existed when the request arrived
Existed(w) == w \in DOMAIN wishlists_before

\* the items wishlist w had when the request arrived
ItemsOf(w) == {i \in DOMAIN items_before : items_before[i].wishlist_id = w}

\* the JSON array of the items S
Serialized(S) == {[id |-> i] @@ items_before[i] : i \in S}

\* the text of a price parameter is a number; the number, in thousandths
IsNumber(raw) == raw \in {"0", "1.0", "2.0"}
NumberOf(raw) == CASE raw = "0" -> 0 [] raw = "1.0" -> 1000 [] raw = "2.0" -> 2000
PriceOf(i) == items_before[i].product_price * 10

\* every price parameter of the query a is absent or a number
PricesParse(a) ==
    /\ (a.min_price # None => IsNumber(Val(a.min_price)))
    /\ (a.max_price # None => IsNumber(Val(a.max_price)))

\* item i meets the price criteria of the query a
MeetsPrices(i, a) ==
    /\ (a.min_price # None => PriceOf(i) >= NumberOf(Val(a.min_price)))
    /\ (a.max_price # None => PriceOf(i) <= NumberOf(Val(a.max_price)))

\* item i meets every criterion of the query a that is present
MeetsPresent(i, a) ==
    /\ (a.product_name # None => items_before[i].product_name = Val(a.product_name))
    /\ (a.category # None => items_before[i].category = a.category)
    /\ MeetsPrices(i, a)

\* a string criterion is given: present and not the empty string
Given(o) == o # None /\ o # Some("")

\* item i meets every criterion of the query a that is given
MeetsGiven(i, a) ==
    /\ (Given(a.product_name) => items_before[i].product_name = Val(a.product_name))
    /\ (Given(a.category) => items_before[i].category = a.category)
    /\ MeetsPrices(i, a)

----------------------------------------------------------------------------
(* C1 *)

\* C1 as stated: for every existing wishlist W and every combination of
\* criteria, listing W's items returns exactly the items of W that satisfy
\* every present criterion.  (Refuted: a present but empty product_name or
\* category is not applied.)
C1_ListReturnsItemsMeetingPresentCriteria ==
    Handled("list_items") /\ Existed(request.wishlist_id)
            /\ PricesParse(request.args)
        => resp.items = Serialized({i \in ItemsOf(request.wishlist_id) :
                                       MeetsPresent(i, request.args)})

\* C1 amended: for every existing wishlist W and every combination of
\* criteria, listing W's items returns exactly the items of W that satisfy
\* every criterion that is present and, for product_name and category, not
\* the empty string: no item of another wishlist, no item failing such a
\* criterion, and every item satisfying them all.
C1_ListReturnsItemsMeetingGivenCriteria ==
    Handled("list_items") /\ Existed(request.wishlist_id)
            /\ PricesParse(request.args)
        => /\ resp.status = HTTP_200_OK
           /\ resp.items = Serialized({i \in ItemsOf(request.wishlist_id) :
                                          MeetsGiven(i, request.args)})

\* a listing by category and price has returned one item of a wishlist and
\* left out another
C1_FilteredListing ==
    /\ Handled("list_items")
    /\ Given(request.args.category)
    /\ request.args.max_price # None /\ PricesParse(request.args)
    /\ resp.items # {}
    /\ Serialized(ItemsOf(request.wishlist_id)) \ resp.items # {}

----------------------------------------------------------------------------
(* C2 *)

\* C2: with no criteria, listing the items of an existing wishlist W answers
\* 200 with exactly the items of W, the empty list when W has none; it never
\* answers 404 for zero items.
C2_UnfilteredListReturnsAllItems ==
    Handled("list_items") /\ Existed(request.wishlist_id)
            /\ request.args = NoArgs
        => resp = Response("list_items", HTTP_200_OK, 0,
                           Serialized(ItemsOf(request.wishlist_id)))

\* an unfiltered listing of a wishlist without items has answered 200 with
\* the empty list, while another wishlist has items
C2_EmptyWishlistListed ==
    /\ Handled("list_items")
    /\ request.args = NoArgs
    /\ Existed(request.wishlist_id)
    /\ ItemsOf(request.wishlist_id) = {}
    /\ DOMAIN items_before # {}
    /\ resp.status = HTTP_200_OK /\ resp.items = {}

----------------------------------------------------------------------------
(* C3 *)

\* C3: the price bounds are inclusive: listing W's items with min_price, with
\* max_price or with both, and no other criterion, returns every item of W
\* whose price equals each bound that is present.
C3_PriceBoundsInclusive ==
    Handled("list_items") /\ Existed(request.wishlist_id)
            /\ request.args.product_name = None /\ request.args.category = None
            /\ PricesParse(request.args)
        => \A i \in ItemsOf(request.wishlist_id) :
              /\ (request.args.min_price # None
                     => PriceOf(i) = NumberOf(Val(request.args.min_price)))
              /\ (request.args.max_price # None
                     => PriceOf(i) = NumberOf(Val(request.args.max_price)))
              => ([id |-> i] @@ items_before[i]) \in resp.items

\* a listing with min_price = max_price has returned an item at that very
\* price and left out an item at another price
C3_ItemAtBothBounds ==
    /\ Handled("list_items")
    /\ request.args.min_price # None
    /\ request.args.min_price = request.args.max_price
    /\ PricesParse(request.args)
    /\ \E i \in ItemsOf(request.wishlist_id) :
          /\ PriceOf(i) = NumberOf(Val(request.args.min_price))
          /\ ([id |-> i] @@ items_before[i]) \in resp.items
    /\ Serialized(ItemsOf(request.wishlist_id)) \ resp.items # {}

----------------------------------------------------------------------------
(* C4 *)

\* C4: listing the items of an existing wishlist with a min_price or
\* max_price that is no number answers 400 (and so neither 200 nor 404).
\* (Refuted: the parameter is dropped and the listing answers 200.)
C4_NonNumericPriceIsBadRequest ==
    Handled("list_items") /\ Existed(request.wishlist_id)
            /\ ~PricesParse(request.args)
        => resp.status = HTTP_400_BAD_REQUEST

----------------------------------------------------------------------------
(* C5 *)

\* a criterion of the query a is active
AnyCriterion(a) ==
    Given(a.product_name) \/ Given(a.category)
        \/ a.min_price # None \/ a.max_price # None

\* C5: listing the items of an existing wishlist with at least one active
\* criterion that no item of the wishlist meets (also when the wishlist has
\* no items) answers 404.  (Refuted: the listing answers 200 with an empty
\* list.)
C5_NoMatchIsNotFound ==
    Handled("list_items") /\ Existed(request.wishlist_id)
            /\ PricesParse(request.args) /\ AnyCriterion(request.args)
            /\ (\A i \in ItemsOf(request.wishlist_id) : ~MeetsGiven(i, request.args))
        => resp.status = HTTP_404_NOT_FOUND

----------------------------------------------------------------------------
(* C6 *)

\* the operations addressed to a wishlist, DELETE left out
WishlistAddressed ==
    {"get_wishlist", "update_wishlist", "list_items", "create_item",
     "clear_wishlist", "publish_wishlist", "unpublish_wishlist", "copy_wishlist"}

\* C6: GET, PUT, list items (with or without criteria), add item, clear,
\* publish, unpublish and copy, addressed to an id that is no wishlist's,
\* answer 404 and leave every wishlist and item as it was.
C6_MissingWishlistIsNotFound ==
    request.op \in WishlistAddressed /\ resp # NoResponse
            /\ ~Existed(request.wishlist_id)
        => /\ resp.status = HTTP_404_NOT_FOUND
           /\ store = before

\* a PUT with a valid body that carries an item has been answered 404 for
\* an id that is no wishlist's, while another wishlist with an item exists
C6_UpdateOfMissingWishlist ==
    /\ Handled("update_wishlist")
    /\ request.wishlist \in GoodWishlistBodies
    /\ request.wishlist.wishlist_items.list # <<>>
    /\ ~Existed(request.wishlist_id)
    /\ DOMAIN items_before # {}
    /\ resp.status = HTTP_404_NOT_FOUND
    /\ store = before

----------------------------------------------------------------------------
(* C7 *)

\* C7: listing is read-only and repeatable: for every request, with or
\* without criteria, for a wishlist that exists or not, the handler leaves
\* the tables as they were, and the same request sent again right after it
\* would get the answer the first one got.
C7_ListingIsReadOnlyAndRepeatable ==
    Handled("list_items")
        => /\ store = before
           /\ resp = WishlistItemCollection_get_response(request.wishlist_id,
                                                         request.args)

\* a listing by product_name has returned items of a wishlist and left out
\* another; the tables are as they were when the request arrived
C7_ListedAndUnchanged ==
    /\ Handled("list_items")
    /\ Given(request.args.product_name)
    /\ resp.status = HTTP_200_OK /\ resp.items # {}
    /\ Serialized(ItemsOf(request.wishlist_id)) \ resp.items # {}
    /\ store = before

----------------------------------------------------------------------------
(* C8 *)

\* C8: deleting an existing wishlist W, the storage layer not failing,
\* answers 204 and deletes W and every item of W; every other item stays as
\* it was and no item appears.
C8_DeleteCascadesToItems ==
    Handled("delete_wishlist") /\ Existed(request.wishlist_id) /\ ~request.fault
        => /\ resp.status = HTTP_204_NO_CONTENT
           /\ request.wishlist_id \notin DOMAIN wishlist_table
           /\ \A i \in DOMAIN item_table :
                 item_table[i].wishlist_id # request.wishlist_id
           /\ DOMAIN item_table
                = DOMAIN items_before \ ItemsOf(request.wishlist_id)
           /\ \A i \in DOMAIN item_table : item_table[i] = items_before[i]

\* a wishlist that had an item has been deleted; its item is gone and the
\* item of another wishlist is still there
C8_DeletedWithItems ==
    /\ Handled("delete_wishlist")
    /\ resp.status = HTTP_204_NO_CONTENT
    /\ Existed(request.wishlist_id)
    /\ \E i \in ItemsOf(request.wishlist_id) : i \notin DOMAIN item_table
    /\ \E j \in DOMAIN item_table :
          item_table[j].wishlist_id # request.wishlist_id

----------------------------------------------------------------------------
(* C9 *)

\* C9: referential integrity: in every reachable state every stored item's
\* wishlist_id is the id of a stored wishlist.
C9_ReferentialIntegrity ==
    \A i \in DOMAIN item_table :
        item_table[i].wishlist_id \in DOMAIN wishlist_table

\* a wishlist has been replaced by a PUT whose body carries an item that
\* names another wishlist; the item is stored, and a wishlist created
\* earlier has been deleted
C9_ItemsAfterReplaceAndDelete ==
    /\ Handled("update_wishlist")
    /\ resp.status = HTTP_200_OK
    /\ \E k \in 1..Len(request.wishlist.wishlist_items.list) :
          /\ request.wishlist.wishlist_items.list[k].wishlist_id.t = "number"
          /\ request.wishlist.wishlist_items.list[k].wishlist_id.n
                # request.wishlist_id
    /\ \E i \in DOMAIN item_table : item_table[i].wishlist_id = request.wishlist_id
    /\ Cardinality(DOMAIN wishlist_table) < wishlist_id_seq

----------------------------------------------------------------------------
(* C10 *)

\* C10: a PUT never reassigns an id: after PUT on a wishlist or on an item,
\* whatever the body, the table holds rows under the same ids as before,
\* and a PUT that succeeds has written the row under the id of the URL and
\* reports that id.
C10_UpdateKeepsId ==
    /\ Handled("update_wishlist")
        => /\ DOMAIN wishlist_table = DOMAIN wishlists_before
           /\ (resp.status = HTTP_200_OK
                 => /\ resp.id = request.wishlist_id
                    /\ request.wishlist_id \in DOMAIN wishlist_table)
    /\ Handled("update_item")
        => /\ DOMAIN item_table = DOMAIN items_before
           /\ (resp.status = HTTP_200_OK
                 => /\ resp.id = request.item_id
                    /\ request.item_id \in DOMAIN item_table
                    /\ item_table[request.item_id].product_name
                         = request.item.product_name.s)

\* a PUT on an item whose body carries another id has succeeded, and that
\* other id is no item's
C10_UpdatedWithForeignId ==
    /\ Handled("update_item")
    /\ resp.status = HTTP_200_OK
    /\ request.item.id.t = "number"
    /\ request.item.id.n # request.item_id
    /\ request.item.id.n \notin DOMAIN item_table
    /\ request.item_id \in DOMAIN item_table

----------------------------------------------------------------------------
(* C11 *)

\* update() was called on an object found in the store whose id the data
\* left empty
UpdateWithEmptyId ==
    \/ /\ Handled("WishlistItem.update")
       /\ request.item_id \in DOMAIN items_before
       /\ WishlistItem_deserialize_ok(request.item)
       /\ request.item.id.t = "absent"
    \/ /\ Handled("Wishlist.update")
       /\ Existed(request.wishlist_id)
       /\ request.wishlist.id.t = "absent"

\* C11: update() on a Wishlist or a WishlistItem whose id is empty raises
\* DataValidationError and the store is as it was before the call.
C11_UpdateWithEmptyIdFails ==
    UpdateWithEmptyId =>
        /\ resp.status = HTTP_400_BAD_REQUEST
        /\ store = before

\* update() with an empty id was called on a stored item whose attributes
\* the data would have changed, and on nothing else did it fail
C11_ItemUpdateWithEmptyId ==
    /\ UpdateWithEmptyId
    /\ request.op = "WishlistItem.update"
    /\ request.item.wishlist_id.n \in DOMAIN wishlists_before
    /\ ItemRow(WishlistItem_deserialize(request.item)) # items_before[request.item_id]
    /\ resp.status = HTTP_400_BAD_REQUEST

----------------------------------------------------------------------------
(* C12 *)

\* C12: the quantity of every stored item is a non-negative integer.
C12_QuantityIsNonNegative ==
    \A i \in DOMAIN item_table : item_table[i].quantity >= 0

----------------------------------------------------------------------------
(* C13 *)

\* the request in flight got as far as its create(), update() or delete():
\* what it addresses was there and its body was accepted
ReachedStorage ==
    LET w == request.wishlist_id
        i == request.item_id
        item_data == [request.item EXCEPT !.wishlist_id = JNum(w)]
        ItemAddressed == i \in ItemsOf(w)
    IN CASE request.op = "create_wishlist" -> Wishlist_deserialize_ok(request.wishlist)
         [] request.op = "update_wishlist" ->
                Existed(w) /\ Wishlist_deserialize_ok(request.wishlist)
         [] request.op \in {"delete_wishlist", "publish_wishlist",
                            "unpublish_wishlist", "Wishlist.update"} -> Existed(w)
         [] request.op = "create_item" ->
                Existed(w) /\ WishlistItem_deserialize_ok(item_data)
         [] request.op = "update_item" ->
                ItemAddressed /\ WishlistItem_deserialize_ok(item_data)
         [] request.op = "delete_item" -> ItemAddressed
         [] request.op = "WishlistItem.update" ->
                /\ i \in DOMAIN items_before
                /\ WishlistItem_deserialize_ok(request.item)
         [] OTHER -> FALSE

\* C13: when the storage layer raises during a create, an update or a delete
\* of a wishlist or an item, the answer is 400 (DataValidationError) and
\* the tables are as they were before the operation; and whenever such an
\* operation answers 400, whatever the cause, the tables are as before.
C13_StorageErrorRollsBack ==
    request.op \in TransactionOps /\ resp # NoResponse
        => /\ request.fault /\ ReachedStorage
                => resp.status = HTTP_400_BAD_REQUEST /\ store = before
           /\ resp.status = HTTP_400_BAD_REQUEST => store = before

\* the storage layer raised while a wishlist that has an item was deleted
C13_DeleteFailed ==
    /\ Handled("delete_wishlist")
    /\ request.fault
    /\ ItemsOf(request.wishlist_id) # {}
    /\ resp.status = HTTP_400_BAD_REQUEST
    /\ store = before

----------------------------------------------------------------------------
(* C14 *)

\* the body of the request lacks name or customer_id, or has an is_public
\* that is no boolean
BodyLacksRequiredOrBadIsPublic ==
    \/ request.wishlist.name.t = "absent"
    \/ request.wishlist.customer_id.t = "absent"
    \/ request.wishlist.is_public.t \notin {"absent", "boolean"}

\* C14: POST /wishlists with a body that lacks name or customer_id, or whose
\* is_public is there and is no boolean, answers 400 and the stored
\* wishlists are the ones there were.
C14_BadWishlistBodyIsRejected ==
    Handled("create_wishlist") /\ BodyLacksRequiredOrBadIsPublic
        => /\ resp.status = HTTP_400_BAD_REQUEST
           /\ wishlist_table = wishlists_before

\* a body whose only defect is an is_public that is a string has been
\* answered, with a wishlist in the store
C14_NonBooleanIsPublicPosted ==
    /\ Handled("create_wishlist")
    /\ ~request.fault
    /\ request.wishlist.is_public.t = "string"
    /\ request.wishlist.name.t = "string"
    /\ request.wishlist.customer_id.t = "string"
    /\ DOMAIN wishlists_before # {}
    /\ resp.status = HTTP_400_BAD_REQUEST

----------------------------------------------------------------------------
(* C15 *)

\* the operations on /wishlists/{W}/items/{I} the claim names
ItemAddressingOps == {"get_item", "update_item", "like_item"}

\* C15: GET, PUT and like on /wishlists/{W}/items/{I} answer 404 and leave
\* the tables as they were whenever item I does not exist or is the item of
\* a wishlist other than W.
C15_ItemOnlyThroughItsWishlist ==
    /\ request.op \in ItemAddressingOps
    /\ resp # NoResponse
    /\ request.item_id \notin ItemsOf(request.wishlist_id)
    => /\ resp.status = HTTP_404_NOT_FOUND
       /\ store = before

\* an item of another wishlist has been addressed through an existing
\* wishlist with a PUT whose body deserializes
C15_ForeignItemUpdated ==
    /\ Handled("update_item")
    /\ Existed(request.wishlist_id)
    /\ request.item_id \in DOMAIN items_before
    /\ items_before[request.item_id].wishlist_id # request.wishlist_id
    /\ WishlistItem_deserialize_ok([request.item EXCEPT
                                      !.wishlist_id = JNum(request.wishlist_id)])
    /\ resp.status = HTTP_404_NOT_FOUND

----------------------------------------------------------------------------
(* C16 *)

\* C16: POST /wishlists/{W}/clear on an existing wishlist W answers 200 and
\* reports items_remaining = 0; afterwards W has no item and listing its
\* items gives the empty list, W is still there with its fields as they
\* were, and the other wishlists and their items are as they were.
C16_ClearEmptiesOnlyItsWishlist ==
    Handled("clear_wishlist") /\ Existed(request.wishlist_id)
        => /\ resp.status = HTTP_200_OK
           /\ resp.value = JNum(0)
           /\ wishlist_items(request.wishlist_id) = {}
           /\ WishlistItemCollection_get_response(request.wishlist_id, NoArgs)
                 = Response("list_items", HTTP_200_OK, 0, {})
           /\ wishlist_table = wishlists_before
           /\ DOMAIN item_table = DOMAIN items_before \ ItemsOf(request.wishlist_id)
           /\ \A i \in DOMAIN item_table : item_table[i] = items_before[i]

\* a wishlist that had an item has been cleared while another wishlist had
\* an item too
C16_ClearedBesideAnother ==
    /\ Handled("clear_wishlist")
    /\ resp.status = HTTP_200_OK
    /\ ItemsOf(request.wishlist_id) # {}
    /\ \E i \in DOMAIN items_before :
          items_before[i].wishlist_id # request.wishlist_id

----------------------------------------------------------------------------
(* C17 *)

\* the value the request in flight is to give is_public
PublicWanted == request.op = "publish_wishlist"

----------------------------------------------------------------------------
(* C18 *)

\* C18: POST /wishlists/{W}/items/{I}/like on an item I of wishlist W
\* succeeds: it answers 200 (and reports a like count one above the one
\* stored before).
C18_LikeSucceeds ==
    Handled("like_item") /\ request.item_id \in ItemsOf(request.wishlist_id)
        => resp.status = HTTP_200_OK

----------------------------------------------------------------------------
(* C19 *)

\* the product fields of an item row
ProductFields(row) ==
    [product_id |-> row.product_id, product_name |-> row.product_name,
     product_description |-> row.product_description,
     product_price |-> row.product_price, category |-> row.category,
     quantity |-> row.quantity]

\* C19: POST /wishlists/{W}/copy on an existing wishlist W answers 201 and
\* creates one new wishlist, whose id is not W; the new wishlist has as many
\* items as W, one per item of W with the same product fields, and none of
\* their ids is the id of an item of W.
C19_CopyCreatesFullCopy ==
    Handled("copy_wishlist") /\ Existed(request.wishlist_id)
        => /\ resp.status = HTTP_201_CREATED
           /\ resp.id # request.wishlist_id
           /\ DOMAIN wishlist_table = DOMAIN wishlists_before \cup {resp.id}
           /\ resp.id \notin DOMAIN wishlists_before
           /\ wishlist_items(resp.id) \cap ItemsOf(request.wishlist_id) = {}
           /\ \E m \in [ItemsOf(request.wishlist_id) -> wishlist_items(resp.id)] :
                 /\ \A i, j \in DOMAIN m : m[i] = m[j] => i = j
                 /\ \A c \in wishlist_items(resp.id) : \E i \in DOMAIN m : m[i] = c
                 /\ \A i \in DOMAIN m :
                       ProductFields(item_table[m[i]]) = ProductFields(items_before[i])

----------------------------------------------------------------------------
(* C20 *)

\* C20: DELETE /wishlists/{id}, the storage layer not failing, answers 204
\* whether or not the wishlist exists, and leaves the tables such that a
\* GET /wishlists/{id} that follows answers 404.
C20_DeleteThenGetIsNotFound ==
    Handled("delete_wishlist") /\ ~request.fault
        => /\ resp.status = HTTP_204_NO_CONTENT
           /\ WishlistResource_get_response(request.wishlist_id).status
                 = HTTP_404_NOT_FOUND

\* the wishlist of the DELETE did not exist, while another one did
C20_MissingWishlistDeleted ==
    /\ Handled("delete_wishlist")
    /\ ~request.fault
    /\ ~Existed(request.wishlist_id)
    /\ DOMAIN wishlists_before # {}
    /\ resp.status = HTTP_204_NO_CONTENT

----------------------------------------------------------------------------
(* C21 *)

\* the calls of the model that are not requests of the API
ModelOps == {"WishlistItem.update", "Wishlist.update", "WishlistItem.serialize"}

\* C21: after any request of the API, an item created by
\* POST /wishlists/{W}/items has wishlist_id W, and every item that was
\* there before the request and is still there has the wishlist_id it had.
C21_WishlistIdFixedByUrl ==
    request.op \notin ModelOps /\ resp # NoResponse
        => /\ request.op = "create_item" /\ resp.status = HTTP_201_CREATED
                => /\ resp.id \in DOMAIN item_table
                   /\ item_table[resp.id].wishlist_id = request.wishlist_id
           /\ \A i \in DOMAIN items_before \cap DOMAIN item_table :
                 item_table[i].wishlist_id = items_before[i].wishlist_id

\* an item has been created in a wishlist with a body that names another
\* wishlist, which exists
C21_CreatedWithForeignWishlistId ==
    /\ Handled("create_item")
    /\ resp.status = HTTP_201_CREATED
    /\ request.item.wishlist_id.t = "number"
    /\ request.item.wishlist_id.n # request.wishlist_id
    /\ request.item.wishlist_id.n \in DOMAIN wishlists_before

----------------------------------------------------------------------------
(* C22 *)

\* C22: deserializing the serialization of a stored item x into a fresh
\* WishlistItem succeeds and gives x's wishlist_id, product_id,
\* product_name, product_description, quantity, category and product_price.
C22_SerializeDeserializeRoundTrip ==
    Handled("WishlistItem.serialize") /\ request.item_id \in DOMAIN items_before
        => /\ resp.status = HTTP_200_OK
           /\ \E new_item \in resp.items :
                 /\ resp.items = {new_item}
                 /\ \A c \in ItemColumns :
                       new_item[c] = items_before[request.item_id][c]

\* the round trip was made for an item that has a category
C22_RoundTripWithCategory ==
    /\ Handled("WishlistItem.serialize")
    /\ request.item_id \in DOMAIN items_before
    /\ items_before[request.item_id].category # None
    /\ resp.status = HTTP_200_OK

----------------------------------------------------------------------------
(* C23 *)

\* the character sequence text contains sub, letter case disregarded
Contains(text, sub) ==
    \E k \in 0..(Len(text) - Len(sub)) :
        \A j \in 1..Len(sub) : Lower(text[k + j]) = Lower(sub[j])

\* wishlist w satisfies every filter the query supplies
SatisfiesFilters(w, q) ==
    /\ q.customer_id # None => wishlists_before[w].customer_id = Val(q.customer_id)
    /\ q.name # None => Contains(Chars(wishlists_before[w].name), Chars(Val(q.name)))
    /\ q.is_public # None
          => wishlists_before[w].is_public = (LowerText(Val(q.is_public)) = "true")

\* C23: GET /wishlists answers 400 when is_public is given and is neither
\* "true" nor "false" in any letter case; otherwise it answers 200 with
\* exactly the stored wishlists that satisfy every filter supplied
\* (customer_id equal, name containing the text whatever the letter case,
\* is_public equal), all of them when none is supplied.
C23_ListReturnsWishlistsMeetingFilters ==
    Handled("list_wishlists")
        => IF request.query.is_public # None
              /\ LowerText(Val(request.query.is_public)) \notin {"true", "false"}
           THEN resp.status = HTTP_400_BAD_REQUEST
           ELSE /\ resp.status = HTTP_200_OK
                /\ resp.items = {[id |-> w] @@ wishlists_before[w] :
                                    w \in {v \in DOMAIN wishlists_before :
                                              SatisfiesFilters(v, request.query)}}

----------------------------------------------------------------------------
(* C24 *)

\* the items the answer of a listing carries all satisfy P, given as the
\* set of the serialized items that do
AllReturnedIn(S) == resp.items \subseteq S

\* C24 as stated: every criterion that is present constrains the items
\* returned, an empty product_name or category and a price bound of 0
\* included.  (Refuted: a present but empty product_name or category
\* constrains nothing.)
C24_PresentCriterionConstrains ==
    LET a == request.args
        W == ItemsOf(request.wishlist_id)
    IN Handled("list_items") /\ Existed(request.wishlist_id) /\ PricesParse(a)
        => /\ a.product_name # None
                => AllReturnedIn(Serialized({i \in W :
                        items_before[i].product_name = Val(a.product_name)}))
           /\ a.category # None
                => AllReturnedIn(Serialized({i \in W :
                        items_before[i].category = a.category}))
           /\ AllReturnedIn(Serialized({i \in W : MeetsPrices(i, a)}))

\* C24 amended: a product_name or category criterion is active exactly
\* when it is present and not the empty string, a min_price or max_price
\* criterion exactly when it is present, a bound of 0 included.  Every
\* active criterion constrains the items returned, so items without a
\* category are excluded whenever a category criterion is active; a
\* criterion that is not active imposes no constraint: every item of the
\* wishlist that meets the active criteria is returned.
C24_ActiveCriterionConstrains ==
    LET a == request.args
        W == ItemsOf(request.wishlist_id)
    IN Handled("list_items") /\ Existed(request.wishlist_id) /\ PricesParse(a)
        => /\ Given(a.product_name)
                => AllReturnedIn(Serialized({i \in W :
                        items_before[i].product_name = Val(a.product_name)}))
           /\ Given(a.category)
                => AllReturnedIn(Serialized({i \in W :
                        items_before[i].category = a.category}))
           /\ AllReturnedIn(Serialized({i \in W : MeetsPrices(i, a)}))
           /\ Serialized({i \in W : MeetsGiven(i, a)}) \subseteq resp.items

\* a wishlist that has an item was listed with max_price 0 and nothing else,
\* and nothing was returned
C24_ListedWithZeroBound ==
    /\ Handled("list_items")
    /\ ItemsOf(request.wishlist_id) # {}
    /\ request.args = [NoArgs EXCEPT !.max_price = Some("0")]
    /\ resp.status = HTTP_200_OK
    /\ resp.items = {}

----------------------------------------------------------------------------
(* C25 *)

\* the rows the items of the request's body become in wishlist w
BodyItemRows(w) ==
    {ItemRow([WishlistItem_deserialize(request.wishlist.wishlist_items.list[k])
                EXCEPT !.wishlist_id = w]) :
        k \in 1..Len(request.wishlist.wishlist_items.list)}

\* C25: after a successful PUT /wishlists/{W} the items of W are the items
\* of the body: with no item in the body every item W had is deleted; the
\* items of the other wishlists are as they were.
C25_PutReplacesItems ==
    LET W == request.wishlist_id
    IN Handled("update_wishlist") /\ resp.status = HTTP_200_OK
        => /\ {item_table[i] : i \in wishlist_items(W)} = BodyItemRows(W)
           /\ Cardinality(wishlist_items(W))
                 = Len(request.wishlist.wishlist_items.list)
           /\ request.wishlist.wishlist_items.list = <<>>
                 => DOMAIN item_table = DOMAIN items_before \ ItemsOf(W)
           /\ \A i \in DOMAIN items_before \ ItemsOf(W) :
                 i \in DOMAIN item_table /\ item_table[i] = items_before[i]

\* a wishlist that had an item was updated with a body without items, while
\* another wishlist had an item
C25_UpdatedWithoutItems ==
    /\ Handled("update_wishlist")
    /\ resp.status = HTTP_200_OK
    /\ request.wishlist.wishlist_items.list = <<>>
    /\ ItemsOf(request.wishlist_id) # {}
    /\ DOMAIN items_before # ItemsOf(request.wishlist_id)

----------------------------------------------------------------------------
(* C26 *)

\* C26: after a successful PUT /wishlists/{W} the wishlist's is_public is
\* the boolean the body gives, and false when the body gives none, whatever
\* it was before.
C26_PutDefaultsIsPublic ==
    Handled("update_wishlist") /\ resp.status = HTTP_200_OK
        => wishlist_table[request.wishlist_id].is_public
             = (request.wishlist.is_public = JBool(TRUE))

\* a public wishlist was updated with a body without is_public
C26_PublicUpdatedWithoutIsPublic ==
    /\ Handled("update_wishlist")
    /\ resp.status = HTTP_200_OK
    /\ wishlists_before[request.wishlist_id].is_public
    /\ request.wishlist.is_public.t = "absent"

----------------------------------------------------------------------------
(* C27 *)

\* a PUT addressed an existing wishlist, or an item of the wishlist of its
\* URL, with a body that deserialize rejects
PutWithInvalidBody ==
    \/ /\ Handled("update_wishlist")
       /\ Existed(request.wishlist_id)
       /\ ~Wishlist_deserialize_ok(request.wishlist)
    \/ /\ Handled("update_item")
       /\ request.item_id \in ItemsOf(request.wishlist_id)
       /\ ~WishlistItem_deserialize_ok([request.item EXCEPT
                                          !.wishlist_id = JNum(request.wishlist_id)])

----------------------------------------------------------------------------
(* C28 *)

\* every row that was stored before the request is stored unchanged
EarlierRowsUnchanged ==
    /\ \A w \in DOMAIN wishlists_before :
          w \in DOMAIN wishlist_table /\ wishlist_table[w] = wishlists_before[w]
    /\ \A i \in DOMAIN items_before :
          i \in DOMAIN item_table /\ item_table[i] = items_before[i]

----------------------------------------------------------------------------
(* C29 *)

\* C29: DELETE /wishlists/{W}/items/{I} changes the store only when item I
\* was stored with wishlist_id W, and then removes exactly item I (204 when
\* the storage accepts the delete).  When I was not stored or belonged to
\* another wishlist the answer is 204 and the store is as it was.  In every
\* case the items of the other wishlists are the ones stored before.
C29_DeleteItemOnlyInItsWishlist ==
    Handled("delete_item")
        => LET W == request.wishlist_id
               I == request.item_id
           IN /\ wishlist_table = wishlists_before
              /\ IF I \in ItemsOf(W)
                 THEN IF request.fault
                      THEN /\ resp.status = HTTP_400_BAD_REQUEST
                           /\ store = before
                      ELSE /\ resp.status = HTTP_204_NO_CONTENT
                           /\ item_table = Without(items_before, {I})
                 ELSE /\ resp.status = HTTP_204_NO_CONTENT
                      /\ store = before
              /\ \A i \in DOMAIN items_before :
                    items_before[i].wishlist_id # W
                        => i \in DOMAIN item_table /\ item_table[i] = items_before[i]

\* the delete was addressed to an existing wishlist and to an item of
\* another wishlist
C29_ForeignItemDeleteAnswered ==
    /\ Handled("delete_item")
    /\ Existed(request.wishlist_id)
    /\ request.item_id \in DOMAIN items_before
    /\ items_before[request.item_id].wishlist_id # request.wishlist_id
    /\ resp.status = HTTP_204_NO_CONTENT

----------------------------------------------------------------------------
(* C30 *)

\* C30: after POST /wishlists/{W}/copy on a stored wishlist W, whatever the
\* answer, W's row and every item of W are as they were; exactly one
\* wishlist is new, named "Copy of " followed by W's name, with W's
\* customer_id and description and is_public false; every new item
\* references the new wishlist and not W.
C30_CopyLeavesOriginalAndIsPrivate ==
    Handled("copy_wishlist") /\ Existed(request.wishlist_id)
        => LET W == request.wishlist_id
               original == wishlists_before[W]
               created == DOMAIN wishlist_table \ DOMAIN wishlists_before
           IN /\ W \in DOMAIN wishlist_table
              /\ wishlist_table[W] = original
              /\ \A i \in ItemsOf(W) :
                    i \in DOMAIN item_table /\ item_table[i] = items_before[i]
              /\ created = {wishlist_id_seq}
              /\ \A n \in created :
                    /\ n # W
                    /\ wishlist_table[n].name = "Copy of " \o original.name
                    /\ wishlist_table[n].customer_id = original.customer_id
                    /\ wishlist_table[n].description = original.description
                    /\ wishlist_table[n].is_public = FALSE
                    /\ \A i \in DOMAIN item_table \ DOMAIN items_before :
                          item_table[i].wishlist_id = n

\* a public wishlist with an item was copied
C30_PublicWishlistCopied ==
    /\ Handled("copy_wishlist")
    /\ resp.status = HTTP_201_CREATED
    /\ wishlists_before[request.wishlist_id].is_public = TRUE
    /\ ItemsOf(request.wishlist_id) # {}
    /\ DOMAIN item_table # DOMAIN items_before

====
